---------------------------- MODULE Spec2Model ----------------------------
(***************************************************************************)
(* Request mediation and permission grants of the Ribbit Signer extension  *)
(* (nos2x-frog): the grant store of storage.ts, the anti-abuse guards, the *)
(* prompt broker and the request mediator of background.ts, and the audit  *)
(* log of requestLog.ts.                                                   *)
(*                                                                         *)
(* Scheduling model.  The background page is single-threaded: code between *)
(* two awaits is one atomic step.  browser.storage.local is a server that  *)
(* applies get and set in the order they are issued; the promise of an     *)
(* operation resolves some time later.  So every step below is "the        *)
(* continuation of the previous await, run up to the next await", and the  *)
(* storage operation that ends it (the get's snapshot, the set's write)    *)
(* takes effect in that step.  A read-modify-write therefore takes its     *)
(* snapshot in one step and writes a whole map back in a later one.        *)
(***************************************************************************)
EXTENDS Integers, Sequences, FiniteSets, TLC

VARIABLES
  now,                  \* Date.now(), milliseconds
  ticks,                \* number of clock advances so far (bounds the clock)
  sitePermissions,      \* storage: ConfigurationKeys.SITE_PERMISSIONS, host -> SitePermission
  storeTasks,           \* calls of the exported grant-store functions that are in progress
  calls,                \* number of grant-store calls made so far (bounds the run)
  foreverGranted,       \* history: (host, capability) pairs with a completed
                        \* addGrant(.., forever) that no later revocation or
                        \* replacement has touched
  requests,             \* the handleContentScriptMessage calls so far, in arrival order
  handlers,             \* the handlePromptMessage calls in progress
  openPromptMap,        \* background.ts: the prompts awaiting a decision
  pendingWindowPromise, \* background.ts: the window being created, or null
  windows,              \* the browser's approval windows
  openPrompts,          \* storage: the prompt list kept by PromptManager (prompt ids)
  requestTimestamps,    \* background.ts: host -> times of admitted requests
  rejectionCooldowns,   \* background.ts: host -> end of the cooldown, 0 without one
  lastRejected,         \* history: host -> time of the user's last rejection, or null
  pendingSignRequests,  \* background.ts: the dedup map, as a set of [fp, owner]
  dedupTimers,          \* the pending setTimeout(cleanup, DEDUP_TTL_MS), as [fp, due]
  securityPreferences,  \* storage: SECURITY_PREFERENCES
  entries,              \* requestLog.ts: the in-memory audit log
  nextId,               \* requestLog.ts
  suppressedCount,      \* requestLog.ts
  initialized,          \* requestLog.ts: loadFromStorage has completed
  loaded,               \* what loadFromStorage's storage.get returns
  auditStore,           \* storage: audit_log, audit_log_next_id, audit_log_suppressed
  flushTimer,           \* requestLog.ts: a debounced flush is scheduled
  flushDue,             \* the time at which the scheduled flush fires
  lastScheduled,        \* history: the time of the latest call of scheduleFlush
  flushTasks,           \* the flushToStorage calls in progress
  issued,               \* history: the ids given to audit entries, in order
  pinEnabled,           \* storage: PIN protection is on
  cachedPin,            \* pinCache: a PIN is cached
  pinPromptMap,         \* background.ts: the PIN prompts awaiting the PIN
  sessionTokens,        \* storage: SESSION_TOKENS, key -> SessionTokenEntry
  tokenTasks,           \* the session-token calls in progress, one per origin
  tokenCalls,           \* number of session-token calls made so far (bounds the run)
  ownTokens,            \* history: origin -> the token map its own calls alone give
  relayAuthGrants,      \* storage: RELAY_AUTH_GRANTS, relay URL -> RelayAuthGrant
  startup               \* the call of the runtime.onStartup listener

clock == <<now, ticks>>
storeLayer == <<storeTasks, calls, foreverGranted>>
guardVars == <<requestTimestamps, rejectionCooldowns, lastRejected>>
dedupVars == <<pendingSignRequests, dedupTimers>>
promptVars == <<openPromptMap, pendingWindowPromise, windows, openPrompts>>
brokerVars == <<sessionTokens, tokenTasks, tokenCalls, ownTokens, relayAuthGrants, startup>>
sideVars == <<pinEnabled, cachedPin, pinPromptMap, brokerVars>>
notBroker == <<now, ticks, sitePermissions, storeTasks, calls, foreverGranted, requests,
               handlers, openPromptMap, pendingWindowPromise, windows, openPrompts,
               requestTimestamps, rejectionCooldowns, lastRejected, pendingSignRequests,
               dedupTimers, securityPreferences, pinEnabled, cachedPin, pinPromptMap,
               startup>>
debounce == <<flushDue, lastScheduled>>
logVars == <<entries, nextId, suppressedCount, initialized, loaded, auditStore,
             flushTimer, flushTasks, issued, debounce>>
pipeline == <<requests, handlers, guardVars, dedupVars, promptVars,
              securityPreferences, sideVars, logVars>>

vars == <<clock, sitePermissions, storeLayer, pipeline>>

----------------------------------------------------------------------------
(* Bounds of the model *)

MaxTicks == 2
MaxFlushes == 1
MaxCount == 1
MaxTasks == 2
MaxCalls == 3
MaxHandlers == 2
MaxWindows == 2

(* Values *)

null == -1
undefined == -2

Hosts == {"h1", "h2", "h3"}

ALL_CAPABILITIES ==
  {"getPublicKey", "getRelays", "signEvent",
   "nip04.encrypt", "nip04.decrypt", "nip44.encrypt", "nip44.decrypt"}

PermissionDuration == {"once", "session", "5m", "30m", "1h", "8h", "24h", "forever"}

\* types.ts: the preferences before any is stored; nip42AutoSign is read by
\* checkExistingGrant and is absent (falsy) from the stored record
DEFAULT_SECURITY_PREFERENCES == [alwaysPromptCritical |-> TRUE, nip42AutoSign |-> FALSE, maxAuditLogEntries |-> 500]

\* perms[host] of a host that has no record
NoSite == [host |-> "undefined"]

\* the null that hasActiveGrant returns
NoGrant == [capability |-> "null"]

InSeq(x, s) == \E i \in 1..Len(s) : s[i] = x

\* Math.floor(Date.now() / 1000)
nowSec == now \div 1000

----------------------------------------------------------------------------
(* Grant store: storage.ts.  Each operator is what the function computes   *)
(* from the map it has read; the actions below split the read from the     *)
(* write.  first_seen, last_active and granted_at are timestamps that no   *)
(* function of the store reads back; they are left out of the records.     *)

newSite(host, count) ==
  [host |-> host, request_count |-> count, denied_count |-> 0, grants |-> <<>>]

touchSite(perms, host) ==
  IF perms[host] = NoSite
    THEN [perms EXCEPT ![host] = newSite(host, 1)]
    ELSE [perms EXCEPT ![host].request_count = @ + 1]

\* the write is skipped when the host has no record
incrementDenied(perms, host) ==
  IF perms[host] # NoSite
    THEN [perms EXCEPT ![host].denied_count = @ + 1]
    ELSE perms

grantExpired(grant, n) == grant.expires_at # null /\ grant.expires_at <= n

kindRefused(grant, capability, eventKind) ==
  /\ capability = "signEvent"
  /\ Len(grant.allowedKinds) > 0
  /\ eventKind # undefined
  /\ ~InSeq(eventKind, grant.allowedKinds)

hasActiveGrant(perms, host, capability, eventKind, n) ==
  IF perms[host] = NoSite THEN NoGrant
  ELSE LET active(g) == /\ g.capability = capability
                        /\ ~grantExpired(g, n)
                        /\ ~kindRefused(g, capability, eventKind)
           found == SelectSeq(perms[host].grants, active)
       IN IF found = <<>> THEN NoGrant ELSE Head(found)

expiresAt(duration, n) ==
  CASE duration = "once"    -> n
    [] duration = "session" -> null
    [] duration = "5m"      -> n + 5 * 60
    [] duration = "30m"     -> n + 30 * 60
    [] duration = "1h"      -> n + 60 * 60
    [] duration = "8h"      -> n + 8 * 60 * 60
    [] duration = "24h"     -> n + 24 * 60 * 60
    [] duration = "forever" -> null

\* (a slip: the prior grant of the capability stays)
replaceGrantKeepingPrior(grants, grant) == Append(grants, grant)

\* the grants of a site once a new grant has been put in
replaceGrant(grants, grant) ==
  Append(SelectSeq(grants, LAMBDA g : g.capability # grant.capability), grant)

addGrant(perms, host, capability, duration, allowedKinds, n) ==
  LET p == IF perms[host] = NoSite
             THEN [perms EXCEPT ![host] = newSite(host, 0)]
             ELSE perms
      grant == [capability |-> capability, expires_at |-> expiresAt(duration, n),
                duration |-> duration, allowedKinds |-> allowedKinds]
  IN [p EXCEPT ![host].grants = replaceGrant(@, grant)]

consumeOnceGrant(perms, host, capability) ==
  IF perms[host] = NoSite THEN perms
  ELSE [perms EXCEPT ![host].grants =
          SelectSeq(@, LAMBDA g : ~(g.capability = capability /\ g.duration = "once"))]

revokeGrant(perms, host, capability) ==
  IF perms[host] = NoSite THEN perms
  ELSE [perms EXCEPT ![host].grants = SelectSeq(@, LAMBDA g : g.capability # capability)]

revokeAllGrants(perms, host) ==
  IF perms[host] = NoSite THEN perms
  ELSE [perms EXCEPT ![host].grants = <<>>]

removeSite(perms, host) == [perms EXCEPT ![host] = NoSite]

purgedSite(site, n) ==
  IF site = NoSite THEN site
  ELSE [site EXCEPT !.grants = SelectSeq(@, LAMBDA g : g.expires_at = null \/ g.expires_at > n)]

\* the write is skipped when nothing was purged
purgeExpiredGrants(perms, n) == [h \in Hosts |-> purgedSite(perms[h], n)]

clearedSite(site) ==
  IF site = NoSite THEN site
  ELSE [site EXCEPT !.grants = SelectSeq(@, LAMBDA g : g.duration # "session")]

clearSessionGrants(perms) == [h \in Hosts |-> clearedSite(perms[h])]


----------------------------------------------------------------------------
(* Calls of the grant store.  A call takes its snapshot when it is made    *)
(* (readSitePermissions), computes and writes in its continuation          *)
(* (writeSitePermissions), and completes when the write's promise          *)
(* resolves; hasActiveGrant only reads.                                    *)

emptyPerms == [h \in Hosts |-> NoSite]

idleTask ==
  [op |-> "none", pc |-> "idle", host |-> "h1", capability |-> "signEvent",
   duration |-> "once", allowedKinds |-> <<>>, eventKind |-> undefined,
   snap |-> emptyPerms, ret |-> NoGrant, at |-> 0]

StoreTasks == 1..MaxTasks

\* slots are interchangeable: a call takes the first free one
freeSlot(t) ==
  /\ storeTasks[t].pc = "idle"
  /\ \A u \in StoreTasks : u < t => storeTasks[u].pc # "idle"

\* the call revokes or replaces the forever grant of (h, c)
touchesForever(task, h, c) ==
  \/ task.op = "revokeGrant" /\ task.host = h /\ task.capability = c
  \/ task.op \in {"revokeAllGrants", "removeSite"} /\ task.host = h
  \/ task.op = "addGrant" /\ task.host = h /\ task.capability = c /\ task.duration # "forever"

keptForever(task) == {p \in foreverGranted : ~touchesForever(task, p[1], p[2])}

storeCall(t, op, h, c, d, ak, k) ==
  LET task == [idleTask EXCEPT !.op = op, !.pc = "read", !.host = h, !.capability = c,
                               !.duration = d, !.allowedKinds = ak, !.eventKind = k,
                               !.snap = sitePermissions]
  IN /\ calls < MaxCalls
     /\ calls' = calls + 1
     /\ storeTasks' = [storeTasks EXCEPT ![t] = task]
     /\ foreverGranted' = keptForever(task)
     /\ UNCHANGED <<clock, sitePermissions, pipeline>>

\* what the call writes back; the map as it is when the call writes nothing
storeWritten(task) ==
  CASE task.op = "touchSite" -> touchSite(task.snap, task.host)
    [] task.op = "incrementDenied" ->
         IF task.snap[task.host] # NoSite
           THEN incrementDenied(task.snap, task.host) ELSE sitePermissions
    [] task.op = "addGrant" ->
         addGrant(task.snap, task.host, task.capability, task.duration,
                  task.allowedKinds, nowSec)
    [] task.op = "consumeOnceGrant" ->
         IF task.snap[task.host] # NoSite
           THEN consumeOnceGrant(task.snap, task.host, task.capability) ELSE sitePermissions
    [] task.op = "revokeGrant" ->
         IF task.snap[task.host] # NoSite
           THEN revokeGrant(task.snap, task.host, task.capability) ELSE sitePermissions
    [] task.op = "revokeAllGrants" ->
         IF task.snap[task.host] # NoSite
           THEN revokeAllGrants(task.snap, task.host) ELSE sitePermissions
    [] task.op = "removeSite" -> removeSite(task.snap, task.host)
    [] task.op = "purgeExpiredGrants" ->
         IF purgeExpiredGrants(task.snap, nowSec) # task.snap
           THEN purgeExpiredGrants(task.snap, nowSec) ELSE sitePermissions
    [] task.op = "clearSessionGrants" -> clearSessionGrants(task.snap)
    [] OTHER -> sitePermissions

CallTouchSite(t, h) ==
  /\ freeSlot(t)
  /\ IF sitePermissions[h] = NoSite THEN TRUE
                                    ELSE sitePermissions[h].request_count < MaxCount
  /\ storeCall(t, "touchSite", h, "signEvent", "once", <<>>, undefined)

CallIncrementDenied(t, h) ==
  /\ freeSlot(t)
  /\ IF sitePermissions[h] = NoSite THEN TRUE
                                    ELSE sitePermissions[h].denied_count < MaxCount
  /\ storeCall(t, "incrementDenied", h, "signEvent", "once", <<>>, undefined)

CallHasActiveGrant(t, h, c, k) ==
  /\ freeSlot(t)
  /\ storeCall(t, "hasActiveGrant", h, c, "once", <<>>, k)

CallAddGrant(t, h, c, d, ak) ==
  /\ freeSlot(t)
  /\ storeCall(t, "addGrant", h, c, d, ak, undefined)

CallConsumeOnceGrant(t, h, c) ==
  /\ freeSlot(t)
  /\ storeCall(t, "consumeOnceGrant", h, c, "once", <<>>, undefined)

CallRevokeGrant(t, h, c) ==
  /\ freeSlot(t)
  /\ storeCall(t, "revokeGrant", h, c, "once", <<>>, undefined)

CallRevokeAllGrants(t, h) ==
  /\ freeSlot(t)
  /\ storeCall(t, "revokeAllGrants", h, "signEvent", "once", <<>>, undefined)

CallRemoveSite(t, h) ==
  /\ freeSlot(t)
  /\ storeCall(t, "removeSite", h, "signEvent", "once", <<>>, undefined)

CallPurgeExpiredGrants(t) ==
  /\ freeSlot(t)
  /\ storeCall(t, "purgeExpiredGrants", "h1", "signEvent", "once", <<>>, undefined)

CallClearSessionGrants(t) ==
  /\ freeSlot(t)
  /\ storeCall(t, "clearSessionGrants", "h1", "signEvent", "once", <<>>, undefined)

\* the continuation of the read: the result of hasActiveGrant, the write of the others
StoreContinue(t) ==
  LET task == storeTasks[t] IN
  /\ task.pc = "read"
  /\ sitePermissions' = storeWritten(task)
  /\ storeTasks' = [storeTasks EXCEPT ![t] =
       [task EXCEPT !.pc = "done", !.at = nowSec,
                    !.ret = IF task.op = "hasActiveGrant"
                              THEN hasActiveGrant(task.snap, task.host, task.capability,
                                                  task.eventKind, nowSec)
                              ELSE NoGrant]]
  /\ foreverGranted' = keptForever(task)
  /\ UNCHANGED <<clock, calls, pipeline>>

\* the call's promise resolves
StoreReturn(t) ==
  LET task == storeTasks[t] IN
  /\ task.pc = "done"
  /\ storeTasks' = [storeTasks EXCEPT ![t] = idleTask]
  /\ foreverGranted' =
       IF task.op = "addGrant" /\ task.duration = "forever"
         THEN foreverGranted \cup {<<task.host, task.capability>>}
         ELSE keptForever(task)
  /\ UNCHANGED <<clock, sitePermissions, calls, pipeline>>

----------------------------------------------------------------------------
(* Session token storage: storage.ts.  A string is the sequence of its     *)
(* pieces, so that tokenKey is the concatenation the template literal      *)
(* makes.  The token map is the set of its [key, entry] pairs, one per     *)
(* key.  The calls made for one origin come one after the other; the calls *)
(* of different origins overlap.  Each call takes its snapshot when it is  *)
(* made (readSessionTokens) and writes the whole map back in its           *)
(* continuation.  ownTokens[o] is the map that the calls of origin o give  *)
(* when no other origin calls.                                             *)

MaxTokenCalls == 4

Origins == {<<"A">>, <<"B">>}

\* tokens[key] of a key that is not in the map; the null of getSessionToken
NoToken == [relayUrl |-> <<>>, origin |-> <<>>, token |-> 0, expiresAt |-> 0]

tokenKey(relayUrl, origin) == relayUrl \o <<"|">> \o origin

tokenAt(tokens, key) ==
  IF \E e \in tokens : e.key = key
    THEN (CHOOSE e \in tokens : e.key = key).entry
    ELSE NoToken

withoutToken(tokens, key) == {e \in tokens : e.key # key}

withToken(tokens, key, entry) ==
  withoutToken(tokens, key) \cup {[key |-> key, entry |-> entry]}

\* what getSessionToken returns from the map it has read
getSessionToken(tokens, relayUrl, origin, n) ==
  LET entry == tokenAt(tokens, tokenKey(relayUrl, origin)) IN
  IF entry = NoToken THEN NoToken
  ELSE IF entry.origin # origin THEN NoToken
  ELSE IF entry.expiresAt <= n THEN NoToken
  ELSE entry

\* getSessionToken deletes the entry it finds expired and writes the map
findsExpired(tokens, relayUrl, origin, n) ==
  LET entry == tokenAt(tokens, tokenKey(relayUrl, origin)) IN
  entry # NoToken /\ entry.origin = origin /\ entry.expiresAt <= n

setSessionToken(tokens, entry) ==
  withToken(tokens, tokenKey(entry.relayUrl, entry.origin), entry)

removeSessionToken(tokens, relayUrl, origin) ==
  withoutToken(tokens, tokenKey(relayUrl, origin))

idleTokenTask ==
  [op |-> "none", pc |-> "idle", relayUrl |-> <<>>, entry |-> NoToken, snap |-> {},
   ret |-> NoToken, expected |-> NoToken]

tokenCall(o, op, relayUrl, entry) ==
  /\ tokenTasks[o].pc = "idle"
  /\ tokenCalls < MaxTokenCalls
  /\ tokenCalls' = tokenCalls + 1
  /\ tokenTasks' = [tokenTasks EXCEPT ![o] =
       [idleTokenTask EXCEPT !.op = op, !.pc = "read", !.relayUrl = relayUrl,
                             !.entry = entry, !.snap = sessionTokens]]
  /\ UNCHANGED <<sessionTokens, ownTokens, relayAuthGrants, notBroker, logVars>>

\* the entry's origin is the origin the call is made for
CallSetSessionToken(o, relayUrl, ttl) ==
  tokenCall(o, "setSessionToken", relayUrl,
            [relayUrl |-> relayUrl, origin |-> o, token |-> tokenCalls + 1,
             expiresAt |-> nowSec + ttl])

CallGetSessionToken(o, relayUrl) == tokenCall(o, "getSessionToken", relayUrl, NoToken)

CallRemoveSessionToken(o, relayUrl) == tokenCall(o, "removeSessionToken", relayUrl, NoToken)

\* the call writes the map
tokenWrites(task, tokens, o) ==
  \/ task.op \in {"setSessionToken", "removeSessionToken"}
  \/ task.op = "getSessionToken" /\ findsExpired(tokens, task.relayUrl, o, nowSec)

\* the map the call makes of the one it has read
tokenWritten(task, tokens, o) ==
  IF task.op = "setSessionToken" THEN setSessionToken(tokens, task.entry)
  ELSE removeSessionToken(tokens, task.relayUrl, o)

\* the continuation of the read
TokenContinue(o) ==
  LET task == tokenTasks[o] IN
  /\ task.pc = "read"
  /\ sessionTokens' = IF tokenWrites(task, task.snap, o)
                        THEN tokenWritten(task, task.snap, o) ELSE sessionTokens
  /\ ownTokens' = [ownTokens EXCEPT ![o] =
       IF tokenWrites(task, @, o) THEN tokenWritten(task, @, o) ELSE @]
  /\ tokenTasks' = [tokenTasks EXCEPT ![o] =
       [task EXCEPT !.pc = "done",
                    !.ret = IF task.op = "getSessionToken"
                              THEN getSessionToken(task.snap, task.relayUrl, o, nowSec)
                              ELSE NoToken,
                    !.expected = IF task.op = "getSessionToken"
                                   THEN getSessionToken(ownTokens[o], task.relayUrl, o, nowSec)
                                   ELSE NoToken]]
  /\ UNCHANGED <<tokenCalls, relayAuthGrants, notBroker, logVars>>

\* the call's promise resolves
TokenReturn(o) ==
  /\ tokenTasks[o].pc = "done"
  /\ tokenTasks' = [tokenTasks EXCEPT ![o] = idleTokenTask]
  /\ UNCHANGED <<sessionTokens, tokenCalls, ownTokens, relayAuthGrants, notBroker, logVars>>

----------------------------------------------------------------------------
(* Relay auth grants: storage.ts.  The map holds a grant or NoRelayGrant   *)
(* for every relay URL.                                                    *)

Relays == {"r1", "r2"}

\* grants[relayUrl] of a relay that has no grant; the null of hasRelayAuthGrant
NoRelayGrant == [relayUrl |-> "null"]

noRelayGrants == [u \in Relays |-> NoRelayGrant]

\* what hasRelayAuthGrant returns from the map it has read
hasRelayAuthGrant(grants, relayUrl, n) ==
  IF relayUrl \notin Relays THEN NoRelayGrant
  ELSE IF grants[relayUrl] = NoRelayGrant THEN NoRelayGrant
  ELSE IF grants[relayUrl].expiresAt # null /\ grants[relayUrl].expiresAt <= n THEN NoRelayGrant
  ELSE grants[relayUrl]

\* Storage.addRelayAuthGrant, for one caller at a time
addRelayAuthGrant(relayUrl, duration) ==
  /\ relayAuthGrants' = [relayAuthGrants EXCEPT ![relayUrl] =
       [relayUrl |-> relayUrl, expiresAt |-> expiresAt(duration, nowSec),
        duration |-> duration]]
  /\ UNCHANGED <<sessionTokens, tokenTasks, tokenCalls, ownTokens, notBroker, logVars>>

----------------------------------------------------------------------------
(* Browser startup: the runtime.onStartup listener of background.ts.  The  *)
(* browser has been started again, so the calls that were in progress are  *)
(* gone; the listener awaits PromptManager.clear, clearSessionGrants,      *)
(* purgeExpiredGrants and migrateOldPermissions in turn, while messages of *)
(* the restored pages arrive.  before is history: the map as the browser   *)
(* found it.  No profile holds permissions of the old format, so           *)
(* migrateOldPermissions reads the profiles and returns.                   *)

idleStartup == [pc |-> "idle", snap |-> emptyPerms, before |-> emptyPerms]

\* the listener is called: PromptManager.clear writes the empty list
BrowserStartup ==
  /\ startup.pc = "idle"
  /\ startup' = [startup EXCEPT !.pc = "clear", !.before = sitePermissions]
  /\ storeTasks' = [t \in StoreTasks |-> idleTask]
  /\ openPrompts' = <<>>
  /\ UNCHANGED <<clock, sitePermissions, calls, foreverGranted, requests, handlers,
                 guardVars, dedupVars, openPromptMap, pendingWindowPromise, windows,
                 securityPreferences, pinEnabled, cachedPin, pinPromptMap, sessionTokens,
                 tokenTasks, tokenCalls, ownTokens, relayAuthGrants, logVars>>

\* what the listener's next continuation writes; the map as it is when it writes
\* nothing
startupWritten ==
  CASE startup.pc = "session" -> clearSessionGrants(startup.snap)
    [] startup.pc = "purge" /\ purgeExpiredGrants(startup.snap, nowSec) # startup.snap ->
         purgeExpiredGrants(startup.snap, nowSec)
    [] OTHER -> sitePermissions

\* where the listener is after its next continuation
startupNext ==
  CASE startup.pc = "clear" -> "session"
    [] startup.pc = "session" -> "session_w"
    [] startup.pc = "session_w" -> "purge"
    [] startup.pc = "purge" -> "migrate"
    [] OTHER -> "done"

\* the listener's next continuation: clearSessionGrants and purgeExpiredGrants
\* read the map and then write it
StartupStep ==
  /\ startup.pc \in {"clear", "session", "session_w", "purge", "migrate"}
  /\ sitePermissions' = startupWritten
  /\ startup' = [startup EXCEPT !.pc = startupNext,
                                !.snap = IF startupNext \in {"session", "purge"}
                                           THEN sitePermissions ELSE emptyPerms]
  /\ UNCHANGED <<clock, storeLayer, requests, handlers, guardVars, dedupVars, promptVars,
                 securityPreferences, pinEnabled, cachedPin, pinPromptMap, sessionTokens,
                 tokenTasks, tokenCalls, ownTokens, relayAuthGrants, logVars>>

----------------------------------------------------------------------------
(* Anti-abuse guards and deduplication: background.ts *)

RATE_LIMIT_MAX == 10
RATE_LIMIT_WINDOW_MS == 5000
PROMPT_QUEUE_CAP == 25
REJECTION_COOLDOWN_MS == 30000
DEDUP_TTL_MS == 30000

AUTO_APPROVE_TYPES == {"getPublicKey", "getRelays"}

\* the requests so far; request r arrived as the r-th
Reqs == DOMAIN requests
Handlers == 1..MaxHandlers
WinIds == 1..MaxWindows

\* (a slip: no timestamp is ever dropped)
recentAll(host) == requestTimestamps[host]

\* the timestamps of the host that the filter of checkRateLimit keeps
recent(host) ==
  SelectSeq(requestTimestamps[host], LAMBDA ts : now - ts < RATE_LIMIT_WINDOW_MS)

\* rejectionCooldowns[host] is 0 while the host has no entry
checkRateLimit(host) ==
  IF rejectionCooldowns[host] # 0 /\ now < rejectionCooldowns[host] THEN "cooldown"
  ELSE IF Len(recent(host)) >= RATE_LIMIT_MAX THEN "rate-limited"
  ELSE "null"

\* (a slip: the timestamp is pushed before the limit is tested)
timestampsCheckedPushFirst(host) ==
  CASE checkRateLimit(host) = "cooldown" -> requestTimestamps
    [] OTHER -> [requestTimestamps EXCEPT ![host] = Append(recent(host), now)]

\* requestTimestamps once checkRateLimit(host) has run
timestampsChecked(host) ==
  CASE checkRateLimit(host) = "cooldown" -> requestTimestamps
    [] checkRateLimit(host) = "rate-limited" ->
         [requestTimestamps EXCEPT ![host] = recent(host)]
    [] OTHER -> [requestTimestamps EXCEPT ![host] = Append(recent(host), now)]

isPromptQueueFull == Len(openPromptMap) >= PROMPT_QUEUE_CAP

\* (a slip: the rejection starts no cooldown)
noRejectionCooldown(cooldowns, host) == cooldowns

setRejectionCooldown(cooldowns, host) ==
  [cooldowns EXCEPT ![host] = now + REJECTION_COOLDOWN_MS]

\* requestFingerprint returns null
noFingerprint == <<>>

\* kind is undefined when params.event is absent; content stands for created_at,
\* content and tags of the event, or for peer and text, and is 0 when those are
\* absent; pubkey is the author the event declares: "absent", "own" (the public
\* key of the active profile) or "other".  The host is not part of the fingerprint.
requestFingerprint(type, kind, content, pubkey) ==
  IF type = "signEvent" /\ kind # undefined THEN <<type, kind, content, pubkey>>
  ELSE IF type \in {"nip04.decrypt", "nip44.decrypt", "nip04.encrypt", "nip44.encrypt"}
          /\ content # 0
    THEN <<type, undefined, content, "absent">>
  ELSE noFingerprint

typeToCapability(type) == IF type \in ALL_CAPABILITIES THEN type ELSE "null"

\* types.ts: KIND_RISK
LowKinds == {1, 2, 6, 7, 16, 42, 22242}
MediumKinds == {0, 3, 40, 41, 10002, 27235}
HighKinds == {4, 5, 1984}
CriticalKinds == {9734, 9735, 13194, 23194, 23195, 24133}

\* (a slip: every unlisted kind from the ephemeral range on is low)
getKindRiskOpenRange(kind) ==
  CASE kind \in LowKinds -> "low"
    [] kind \in MediumKinds -> "medium"
    [] kind \in HighKinds -> "high"
    [] kind \in CriticalKinds -> "critical"
    [] OTHER -> IF kind >= 20000 THEN "low" ELSE "medium"

getKindRisk(kind) ==
  CASE kind \in LowKinds -> "low"
    [] kind \in MediumKinds -> "medium"
    [] kind \in HighKinds -> "high"
    [] kind \in CriticalKinds -> "critical"
    [] OTHER -> IF kind >= 20000 /\ kind < 30000 THEN "low" ELSE "medium"

----------------------------------------------------------------------------
(* Audit log: requestLog.ts.  An entry keeps, as history, the request it   *)
(* was written for.                                                        *)

MAX_ENTRIES == 500

\* the three storage keys when none of them is stored
NoAudit == [stored |-> FALSE, entries |-> <<>>, nextId |-> 0, suppressedCount |-> 0]

FlushTasks == 1..MaxFlushes

FLUSH_DELAY_MS == 1000

\* a slip: a timer that is already running is left as it is
scheduleFlushKeepingTimer ==
  /\ flushTimer' = TRUE
  /\ flushDue' = IF flushTimer THEN flushDue ELSE now + FLUSH_DELAY_MS
  /\ lastScheduled' = now
\* clearTimeout of the running timer, then setTimeout(flushToStorage, FLUSH_DELAY_MS)
scheduleFlush ==
  /\ flushTimer' = TRUE
  /\ flushDue' = now + FLUSH_DELAY_MS
  /\ lastScheduled' = now

RECURSIVE trimmed(_)
trimmed(es) == IF Len(es) > MAX_ENTRIES THEN trimmed(Tail(es)) ELSE es

logRequest(type, host, disposition, silent, r) ==
  /\ entries' = trimmed(Append(entries,
       [id |-> nextId, type |-> type, host |-> host, disposition |-> disposition,
        silent |-> silent, req |-> r]))
  /\ nextId' = nextId + 1
  /\ suppressedCount' = IF silent THEN suppressedCount + 1 ELSE suppressedCount
  /\ scheduleFlush
  /\ issued' = Append(issued, nextId)
  /\ UNCHANGED <<initialized, loaded, auditStore, flushTasks>>

noLog == UNCHANGED logVars

\* the request has an entry of this disposition
logged(r, disposition) ==
  \E i \in 1..Len(entries) : entries[i].req = r /\ entries[i].disposition = disposition

----------------------------------------------------------------------------
(* Capability requests: handleContentScriptMessage, processRequest,        *)
(* checkExistingGrant and promptForPermission of background.ts.  A request *)
(* record holds the position of the call and its locals; rl, at, inWindow, *)
(* afterReject and sawOnce are history, written when the guards and the    *)
(* grant check run; so are queue (the open prompts when the guards ran),   *)
(* twin (an identical request of the host that was in progress then),      *)
(* closed (the request's window was closed on it), decision (what its      *)
(* prompt was resolved with) and keyRead (the call reached                 *)
(* getDecryptedPrivateKey).  The prompt id of request r is r.  relay is    *)
(* the relay URL in the tags of a kind-22242 event; lookup is the way      *)
(* checkExistingGrant went and trusted whether the relay had an active     *)
(* per-relay auth grant then (both history).                               *)

newRequest ==
  [pc |-> "new", host |-> "h1", type |-> "signEvent", kind |-> undefined,
   content |-> 0, pubkey |-> "absent", prefs |-> DEFAULT_SECURITY_PREFERENCES, snap |-> emptyPerms,
   win |-> 0, add |-> "none", list |-> <<>>, dedup |-> "none", of |-> 0,
   rl |-> "none", at |-> 0, inWindow |-> 0, afterReject |-> FALSE,
   sawOnce |-> FALSE, queue |-> 0, twin |-> 0, closed |-> FALSE,
   decision |-> "none", by |-> "none", pinned |-> FALSE, risk |-> "none", grantedAt |-> null, remembered |-> "none", since |-> null, keyRead |-> FALSE,
   relay |-> "none", lookup |-> "none", trusted |-> FALSE,
   sk |-> "none", signed |-> FALSE, result |-> "none"]

fingerprintOf(q) == requestFingerprint(q.type, q.kind, q.content, q.pubkey)

\* the promise of request r settles: r and the requests that were handed r's
\* promise by the dedup map get the result
settle(reqs, r, res) ==
  [p \in Reqs |->
     IF p = r \/ (reqs[p].pc = "deduped" /\ reqs[p].of = r)
       THEN [reqs[p] EXCEPT !.pc = "done", !.result = res, !.snap = emptyPerms]
       ELSE reqs[p]]

\* resultPromise.then(cleanup, cleanup): deletes whatever the fingerprint maps to
pendingSettled(r) ==
  IF requests[r].dedup = "owner"
    THEN {e \in pendingSignRequests : e.fp # fingerprintOf(requests[r])}
    ELSE pendingSignRequests

\* history: the requests of the host admitted by the rate limiter in the last
\* RATE_LIMIT_WINDOW_MS, counted from the requests themselves
admittedInWindow(host) ==
  Cardinality({p \in Reqs : /\ requests[p].host = host
                            /\ requests[p].rl = "null"
                            /\ now - requests[p].at < RATE_LIMIT_WINDOW_MS})

\* history: a prompt of the host was rejected by the user less than
\* REJECTION_COOLDOWN_MS ago
rejectedRecently(host) ==
  lastRejected[host] # null /\ now - lastRejected[host] < REJECTION_COOLDOWN_MS

\* history: the earliest request of the same host and fingerprint that has passed
\* the guards and is still in progress; 0 when there is none
twinOf(q) ==
  LET twins == {p \in Reqs : /\ requests[p].host = q.host
                              /\ requests[p].type = q.type
                              /\ fingerprintOf(requests[p]) = fingerprintOf(q)
                              /\ fingerprintOf(q) # noFingerprint
                              /\ requests[p].pc \notin {"touch", "touched", "done"}}
  IN IF twins = {} THEN 0 ELSE CHOOSE p \in twins : \A o \in twins : p <= o

\* history: the time of the latest addGrant written for a remembered approval of
\* the host and capability, null when there was none
rememberedSince(host, type) ==
  LET ts == {requests[p].grantedAt :
               p \in {x \in Reqs : /\ requests[x].host = host
                                   /\ requests[x].type = type
                                   /\ requests[x].remembered # "none"}}
  IN IF ts = {} THEN null ELSE CHOOSE t \in ts : \A u \in ts : u <= t

\* a message from a content script arrives; touchSite reads the map
ArriveTagged(host, type, kind, content, pubkey, relay) ==
  /\ requests' = Append(requests,
       [newRequest EXCEPT !.pc = "touch", !.host = host, !.type = type, !.kind = kind,
                       !.content = content, !.pubkey = pubkey, !.relay = relay,
                       !.since = rememberedSince(host, type),
                       !.snap = sitePermissions])
  /\ UNCHANGED <<clock, sitePermissions, storeLayer, guardVars, dedupVars, promptVars,
                 handlers, securityPreferences, sideVars, logVars>>

\* a message whose event, if any, names no relay
Arrive(host, type, kind, content, pubkey) ==
  ArriveTagged(host, type, kind, content, pubkey, "none")

\* touchSite writes the map back
TouchWrite(r) ==
  /\ requests[r].pc = "touch"
  /\ sitePermissions' = touchSite(requests[r].snap, requests[r].host)
  /\ requests' = [requests EXCEPT ![r].pc = "touched", ![r].snap = emptyPerms]
  /\ UNCHANGED <<clock, storeLayer, guardVars, dedupVars, promptVars, handlers,
                 securityPreferences, sideVars, logVars>>

\* (a slip: the guards come before the test for the auto-approved types)
guardBranchGuardsFirst(q) ==
  CASE checkRateLimit(q.host) # "null" -> checkRateLimit(q.host)
    [] isPromptQueueFull -> "queue-full"
    [] q.type \in AUTO_APPROVE_TYPES -> "auto"
    [] /\ fingerprintOf(q) # noFingerprint
       /\ \E e \in pendingSignRequests : e.fp = fingerprintOf(q) -> "deduped"
    [] typeToCapability(q.type) = "null" -> "unknown"
    [] OTHER -> "process"

\* which way handleContentScriptMessage goes once touchSite has returned
guardBranch(q) ==
  CASE q.type \in AUTO_APPROVE_TYPES -> "auto"
    [] checkRateLimit(q.host) # "null" -> checkRateLimit(q.host)
    [] isPromptQueueFull -> "queue-full"
    [] /\ fingerprintOf(q) # noFingerprint
       /\ \E e \in pendingSignRequests : e.fp = fingerprintOf(q) -> "deduped"
    [] typeToCapability(q.type) = "null" -> "unknown"
    [] OTHER -> "process"

\* handleContentScriptMessage after touchSite: auto-approval, rate limit, queue
\* cap, dedup, and processRequest up to its first await (readSecurityPreferences
\* or, for the auto-approved types, getDecryptedPrivateKey)
Guards(r) ==
  LET q == requests[r]
      branch == guardBranch(q)
      fp == fingerprintOf(q)
      base == [q EXCEPT !.at = now,
                        !.rl = IF branch = "auto" THEN "none" ELSE checkRateLimit(q.host),
                        !.inWindow = admittedInWindow(q.host),
                        !.afterReject = rejectedRecently(q.host),
                        !.queue = Len(openPromptMap),
                        !.twin = twinOf(q)]
      owner == (CHOOSE e \in pendingSignRequests : e.fp = fp).owner
  IN
  /\ q.pc = "touched"
  /\ requestTimestamps' =
       IF branch = "auto" THEN requestTimestamps ELSE timestampsChecked(q.host)
  /\ IF branch \in {"cooldown", "rate-limited", "queue-full", "deduped"}
       THEN logRequest(q.type, q.host, branch, TRUE, r)
       ELSE IF branch = "auto" THEN logRequest(q.type, q.host, "auto-approved", TRUE, r)
       ELSE IF branch = "unknown" THEN logRequest(q.type, q.host, "error", FALSE, r)
       ELSE noLog
  /\ requests' =
       CASE branch \in {"cooldown", "rate-limited", "queue-full", "unknown"} ->
              settle([requests EXCEPT ![r] = base], r, "error")
         [] branch = "deduped" ->
              [requests EXCEPT ![r] = [base EXCEPT !.pc = "deduped", !.of = owner]]
         [] branch = "auto" -> [requests EXCEPT ![r] = [base EXCEPT !.pc = "exec"]]
         [] OTHER ->
              [requests EXCEPT ![r] =
                 [base EXCEPT !.pc = "prefs", !.prefs = securityPreferences,
                              !.dedup = IF fp # noFingerprint THEN "owner" ELSE "none"]]
  /\ pendingSignRequests' =
       IF branch = "process" /\ fp # noFingerprint
         THEN pendingSignRequests \cup {[fp |-> fp, owner |-> r]}
         ELSE pendingSignRequests
  /\ dedupTimers' =
       IF branch = "process" /\ fp # noFingerprint
         THEN dedupTimers \cup {[fp |-> fp, due |-> now + DEDUP_TTL_MS]}
         ELSE dedupTimers
  /\ UNCHANGED <<clock, sitePermissions, storeLayer, rejectionCooldowns, lastRejected,
                 promptVars, handlers, securityPreferences, sideVars>>

\* setTimeout(cleanup, DEDUP_TTL_MS) fires
TimerFire(fp, due) ==
  /\ [fp |-> fp, due |-> due] \in dedupTimers
  /\ now >= due
  /\ dedupTimers' = dedupTimers \ {[fp |-> fp, due |-> due]}
  /\ pendingSignRequests' = {e \in pendingSignRequests : e.fp # fp}
  /\ UNCHANGED <<clock, sitePermissions, storeLayer, guardVars, promptVars, requests,
                 handlers, securityPreferences, sideVars, logVars>>

\* (a slip: the preference for critical kinds is not looked at)
lookupBranchGrantsOnly(q) ==
  IF q.type = "signEvent" /\ q.kind = 22242 /\ q.prefs.nip42AutoSign THEN "auto-signed"
  ELSE "lookup"

\* which way checkExistingGrant goes before it looks for a grant
lookupBranch(q) ==
  IF q.type = "signEvent" /\ q.kind = 22242 /\ q.prefs.nip42AutoSign THEN "auto-signed"
  ELSE IF /\ q.prefs.alwaysPromptCritical
          /\ q.type = "signEvent"
          /\ q.kind # undefined
          /\ getKindRisk(q.kind) = "critical" THEN "critical"
  ELSE "lookup"

\* processRequest after readSecurityPreferences: checkExistingGrant up to the read
\* of hasActiveGrant, or promptForPermission up to the read of getSitePermission
GrantLookup(r) ==
  LET q == requests[r]
      branch == lookupBranch(q)
      seen == [q EXCEPT !.lookup = branch,
                        !.trusted = hasRelayAuthGrant(relayAuthGrants, q.relay, nowSec) # NoRelayGrant]
  IN
  /\ q.pc = "prefs"
  /\ IF branch = "auto-signed" THEN logRequest(q.type, q.host, "auto-signed", TRUE, r)
                               ELSE noLog
  /\ requests' = [requests EXCEPT ![r] =
       CASE branch = "auto-signed" -> [seen EXCEPT !.pc = "exec"]
         [] branch = "critical" -> [seen EXCEPT !.pc = "site", !.snap = sitePermissions]
         [] OTHER -> [seen EXCEPT !.pc = "grant", !.snap = sitePermissions]]
  /\ UNCHANGED <<clock, sitePermissions, storeLayer, guardVars, dedupVars, promptVars,
                 handlers, securityPreferences, sideVars>>

\* history: the map read by hasActiveGrant held a once grant for the request
onceGrantStored(q) ==
  /\ q.snap[q.host] # NoSite
  /\ \E i \in 1..Len(q.snap[q.host].grants) :
       /\ q.snap[q.host].grants[i].capability = q.type
       /\ q.snap[q.host].grants[i].duration = "once"
       /\ ~kindRefused(q.snap[q.host].grants[i], q.type, q.kind)

\* checkExistingGrant after hasActiveGrant has read the map
GrantCheck(r) ==
  LET q == requests[r]
      grant == hasActiveGrant(q.snap, q.host, q.type, q.kind, nowSec)
      seen == [q EXCEPT !.sawOnce = onceGrantStored(q)]
  IN
  /\ q.pc = "grant"
  /\ IF grant # NoGrant /\ grant.duration # "once"
       THEN logRequest(q.type, q.host, "auto-approved", TRUE, r)
       ELSE noLog
  /\ requests' = [requests EXCEPT ![r] =
       IF grant = NoGrant THEN [seen EXCEPT !.pc = "site", !.snap = sitePermissions]
       ELSE IF grant.duration = "once"
         THEN [seen EXCEPT !.pc = "consume", !.snap = sitePermissions]
       ELSE [seen EXCEPT !.pc = "exec", !.snap = emptyPerms]]
  /\ UNCHANGED <<clock, sitePermissions, storeLayer, guardVars, dedupVars, promptVars,
                 handlers, securityPreferences, sideVars>>

\* consumeOnceGrant after its read; without a site record it returns at once and
\* the request is logged and goes on
ConsumeWrite(r) ==
  LET q == requests[r] IN
  /\ q.pc = "consume"
  /\ sitePermissions' =
       IF q.snap[q.host] # NoSite THEN consumeOnceGrant(q.snap, q.host, q.type)
                                  ELSE sitePermissions
  /\ IF q.snap[q.host] # NoSite THEN noLog
       ELSE logRequest(q.type, q.host, "auto-approved", TRUE, r)
  /\ requests' = [requests EXCEPT ![r] =
       [q EXCEPT !.pc = IF q.snap[q.host] # NoSite THEN "consumed" ELSE "exec",
                 !.snap = emptyPerms]]
  /\ UNCHANGED <<clock, storeLayer, guardVars, dedupVars, promptVars, handlers,
                 securityPreferences, sideVars>>

\* the write of consumeOnceGrant has resolved: the request is authorized
ConsumeDone(r) ==
  LET q == requests[r] IN
  /\ q.pc = "consumed"
  /\ logRequest(q.type, q.host, "auto-approved", TRUE, r)
  /\ requests' = [requests EXCEPT ![r].pc = "exec"]
  /\ UNCHANGED <<clock, sitePermissions, storeLayer, guardVars, dedupVars, promptVars,
                 handlers, securityPreferences, sideVars>>

----------------------------------------------------------------------------
(* Prompt broker: promptForPermission, the approval windows and the        *)
(* persisted prompt list of PromptManager.  openPromptMap is the sequence  *)
(* of its entries in insertion order.  A window is "none", "creating",     *)
(* "open", "closing" (gone, its onRemoved event not yet delivered) or      *)
(* "closed".                                                               *)

promptIds == {openPromptMap[i].id : i \in 1..Len(openPromptMap)}

\* delete openPromptMap[id]
withoutPrompt(map, id) == SelectSeq(map, LAMBDA e : e.id # id)

\* the requests whose then-callbacks hang on the creation of window w, in id order
waiters(w) == {r \in Reqs : requests[r].pc = "win_join" /\ requests[r].win = w}

RECURSIVE entriesFor(_, _)
entriesFor(rs, w) ==
  IF rs = {} THEN <<>>
  ELSE LET r == CHOOSE x \in rs : \A y \in rs : x <= y
       IN <<[id |-> r, windowId |-> w]>> \o entriesFor(rs \ {r}, w)

\* nothing refers to window w any more
forgotten(w) ==
  /\ windows[w] \in {"none", "closed"}
  /\ \A r \in Reqs : requests[r].pc \in {"win_get", "win_join", "pin_get", "pin_create"}
                       => requests[r].win # w
  /\ \A i \in 1..Len(pinPromptMap) : pinPromptMap[i].windowId # w
  /\ \A hd \in Handlers : handlers[hd].pc # "idle" => handlers[hd].sender # w
  /\ \A i \in 1..Len(openPromptMap) : openPromptMap[i].windowId # w

\* the record that stands for the next window the browser creates: the first one
\* never used or closed and forgotten
freeWindow(w) ==
  /\ forgotten(w)
  /\ \A v \in WinIds : v < w => ~forgotten(v)

\* the riskTier promptForPermission hands to the prompt; "none" is undefined
riskTier(q) ==
  IF typeToCapability(q.type) = "signEvent" /\ q.kind # undefined
    THEN getKindRisk(q.kind) ELSE "none"

\* promptForPermission after getSitePermission and getActiveCapabilities (two
\* reads in a row, taken as one): the executor picks the window promise
PromptOpen(r) ==
  LET q == [requests[r] EXCEPT !.risk = riskTier(requests[r])] IN
  /\ q.pc = "site"
  /\ IF Len(openPromptMap) > 0
       THEN /\ requests' = [requests EXCEPT ![r] =
                 [q EXCEPT !.pc = "win_get", !.win = openPromptMap[1].windowId,
                           !.snap = emptyPerms]]
            /\ UNCHANGED <<pendingWindowPromise, windows>>
       ELSE IF pendingWindowPromise # null
         THEN /\ requests' = [requests EXCEPT ![r] =
                   [q EXCEPT !.pc = "win_join", !.win = pendingWindowPromise,
                             !.snap = emptyPerms]]
              /\ UNCHANGED <<pendingWindowPromise, windows>>
         ELSE \E w \in WinIds :
                /\ freeWindow(w)
                /\ windows' = [windows EXCEPT ![w] = "creating"]
                /\ pendingWindowPromise' = w
                /\ requests' = [requests EXCEPT ![r] =
                     [q EXCEPT !.pc = "win_join", !.win = w, !.snap = emptyPerms]]
  /\ UNCHANGED <<clock, sitePermissions, storeLayer, guardVars, dedupVars, openPromptMap,
                 openPrompts, handlers, securityPreferences, sideVars, logVars>>

\* windows.create resolves: every then-callback hanging on it clears the gate,
\* registers its prompt and starts PromptManager.add (which reads the list)
WindowCreated(w) ==
  /\ windows[w] = "creating"
  /\ waiters(w) # {}
  /\ windows' = [windows EXCEPT ![w] = "open"]
  /\ pendingWindowPromise' = IF waiters(w) # {} THEN null ELSE pendingWindowPromise
  /\ openPromptMap' = openPromptMap \o entriesFor(waiters(w), w)
  /\ requests' = [r \in Reqs |->
       IF r \in waiters(w)
         THEN [requests[r] EXCEPT !.pc = "awaiting", !.add = "read", !.list = openPrompts]
         ELSE requests[r]]
  /\ UNCHANGED <<clock, sitePermissions, storeLayer, guardVars, dedupVars, openPrompts,
                 handlers, securityPreferences, sideVars, logVars>>

\* windows.get settles: with the window, the then-callback runs as above; without
\* it, the catch clears the gate and the request ends with an error
WindowGot(r) ==
  LET q == requests[r] IN
  /\ q.pc = "win_get"
  /\ pendingWindowPromise' = null
  /\ IF windows[q.win] = "open"
       THEN /\ openPromptMap' = Append(openPromptMap, [id |-> r, windowId |-> q.win])
            /\ requests' = [requests EXCEPT ![r] =
                 [q EXCEPT !.pc = "awaiting", !.add = "read", !.list = openPrompts]]
            /\ UNCHANGED pendingSignRequests
            /\ noLog
       ELSE /\ logRequest(q.type, q.host, "error", FALSE, r)
            /\ requests' = settle(requests, r, "error")
            /\ pendingSignRequests' = pendingSettled(r)
            /\ UNCHANGED openPromptMap
  /\ UNCHANGED <<clock, sitePermissions, storeLayer, guardVars, dedupTimers, windows,
                 openPrompts, handlers, securityPreferences, sideVars>>

\* PromptManager.add after its read: the list it read plus the item is written
PromptAddWrite(r) ==
  /\ requests[r].add = "read"
  /\ openPrompts' = Append(requests[r].list, r)
  /\ requests' = [requests EXCEPT ![r].add = "none", ![r].list = <<>>]
  /\ UNCHANGED <<clock, sitePermissions, storeLayer, guardVars, dedupVars, openPromptMap,
                 pendingWindowPromise, windows, handlers, securityPreferences, sideVars, logVars>>

\* processRequest after a rejected prompt: incrementDenied after its read; without
\* a site record it returns at once and the request ends
DenyWrite(r) ==
  LET q == requests[r] IN
  /\ q.pc = "deny"
  /\ IF q.snap[q.host] # NoSite
       THEN /\ sitePermissions' = incrementDenied(q.snap, q.host)
            /\ requests' = [requests EXCEPT ![r].pc = "denied", ![r].snap = emptyPerms]
            /\ UNCHANGED <<rejectionCooldowns, pendingSignRequests>>
            /\ noLog
       ELSE /\ rejectionCooldowns' = setRejectionCooldown(rejectionCooldowns, q.host)
            /\ logRequest(q.type, q.host, "rejected", FALSE, r)
            /\ requests' = settle(requests, r, "error")
            /\ pendingSignRequests' = pendingSettled(r)
            /\ UNCHANGED sitePermissions
  /\ UNCHANGED <<clock, storeLayer, requestTimestamps, lastRejected, dedupTimers,
                 promptVars, handlers, securityPreferences, sideVars>>

\* the write of incrementDenied has resolved: cooldown, log entry, error
DenyDone(r) ==
  LET q == requests[r] IN
  /\ q.pc = "denied"
  /\ rejectionCooldowns' = setRejectionCooldown(rejectionCooldowns, q.host)
  /\ logRequest(q.type, q.host, "rejected", FALSE, r)
  /\ requests' = settle(requests, r, "error")
  /\ pendingSignRequests' = pendingSettled(r)
  /\ UNCHANGED <<clock, sitePermissions, storeLayer, requestTimestamps, lastRejected,
                 dedupTimers, promptVars, handlers, securityPreferences, sideVars>>

\* the rest of processRequest.  outcome says what the calls it makes do:
\* "keythrow" (getDecryptedPrivateKey throws: no encrypted key, or the PIN does not
\* decrypt it), "nokey" (it returns null), "derivethrow" (the stored key is no hex
\* key: the derivation or the conversion throws), "throw" (the operation in the
\* switch throws) or "ok".

\* (a slip: the declared author is not compared)
authorUnchecked(q) == FALSE

\* the event declares an author other than the active profile's public key
authorMismatch(q) == q.pubkey # "absent" /\ q.pubkey # "own"

\* the switch in the try block: "value" (a result), "error" (a structured error
\* set as result) or "caught" (an exception, caught below)
tryBlock(q, outcome) ==
  CASE q.type \in AUTO_APPROVE_TYPES -> IF outcome = "throw" /\ q.type = "getRelays"
                                          THEN "caught" ELSE "value"
    [] q.type = "signEvent" ->
         IF q.kind = undefined THEN "error"
         ELSE IF authorMismatch(q) THEN "caught"
         ELSE IF outcome = "throw" THEN "caught"
         ELSE "value"
    [] typeToCapability(q.type) = "null" -> "error"
    [] OTHER -> IF outcome = "throw" THEN "caught" ELSE "value"

\* finalizeEvent has been called with the key
finalized(q, outcome) ==
  /\ q.type = "signEvent"
  /\ q.kind # undefined
  /\ ~authorMismatch(q)

\* (a slip: the key bytes are cleared on the way out of the try block only)
clearedOnSuccessOnly(way) == IF way = "caught" THEN "live" ELSE "cleared"

\* memoryUtils.ts: clearUint8Array overwrites the bytes
clearUint8Array(sk) == "cleared"

\* the finally block: clearUint8Array(sk), whichever way the try block was left
finallyBlock(way) == clearUint8Array("live")

\* what the tail of processRequest comes to: the response ("value", "error", or
\* "rejected" when the promise rejects), whether an error entry is logged, the
\* state of the key bytes sk at the return, and whether finalizeEvent was called
execution(q, outcome) ==
  CASE outcome \in {"keythrow", "derivethrow"} ->
         [result |-> "rejected", log |-> FALSE, sk |-> "none", signed |-> FALSE]
    [] outcome = "nokey" ->
         [result |-> "error", log |-> FALSE, sk |-> "none", signed |-> FALSE]
    [] OTHER ->
         [result |-> IF tryBlock(q, outcome) = "value" THEN "value" ELSE "error",
          log |-> tryBlock(q, outcome) = "caught",
          sk |-> finallyBlock(tryBlock(q, outcome)),
          signed |-> finalized(q, outcome)]

\* getDecryptedPrivateKey has to ask for the PIN: protection is on, no PIN is
\* cached and promptPin has not given one to this call
needsPin(q) == pinEnabled /\ ~cachedPin /\ ~q.pinned

Execute(r, outcome) ==
  LET q == requests[r]
      e == execution(q, outcome)
  IN
  /\ q.pc = "exec"
  /\ ~needsPin(q)
  /\ IF e.log THEN logRequest(q.type, q.host, "error", FALSE, r) ELSE noLog
  /\ requests' = settle([requests EXCEPT ![r].keyRead = TRUE, ![r].sk = e.sk,
                                         ![r].signed = e.signed], r, e.result)
  /\ pendingSignRequests' = pendingSettled(r)
  /\ UNCHANGED <<clock, sitePermissions, storeLayer, guardVars, dedupTimers, promptVars,
                 handlers, securityPreferences, sideVars>>

----------------------------------------------------------------------------
(* The PIN prompt: getDecryptedPrivateKey and promptPin of background.ts.  *)
(* pinPromptMap holds [id, windowId] in insertion order; every prompt of a *)
(* request has mode unlock.                                                *)

\* the PIN prompts registered for window w (a window shows approval prompts or
\* PIN prompts, never both)
pinPromptsOf(w) == {pinPromptMap[i].id : i \in {j \in 1..Len(pinPromptMap) : pinPromptMap[j].windowId = w}}

\* the PIN protection is switched on in the options page; no PIN is cached
setPinEnabled ==
  /\ ~pinEnabled
  /\ pinEnabled' = TRUE
  /\ UNCHANGED <<clock, sitePermissions, storeLayer, requests, handlers, guardVars,
                 dedupVars, promptVars, securityPreferences, brokerVars, cachedPin, pinPromptMap,
                 logVars>>

\* getDecryptedPrivateKey finds the protection on and no PIN cached: promptPin
\* asks for the window of an existing PIN prompt or opens a window
promptPin(r) ==
  LET q == requests[r] IN
  /\ q.pc = "exec"
  /\ needsPin(q)
  /\ IF Len(pinPromptMap) > 0
       THEN /\ requests' = [requests EXCEPT ![r].pc = "pin_get",
                                            ![r].win = pinPromptMap[1].windowId]
            /\ UNCHANGED windows
       ELSE \E w \in WinIds :
              /\ freeWindow(w)
              /\ windows' = [windows EXCEPT ![w] = "creating"]
              /\ requests' = [requests EXCEPT ![r].pc = "pin_create", ![r].win = w]
  /\ UNCHANGED <<clock, sitePermissions, storeLayer, handlers, guardVars, dedupVars,
                 openPromptMap, pendingWindowPromise, openPrompts, securityPreferences,
                 sideVars, logVars>>

\* openPopupWindow resolves: the PIN prompt is registered
PinWindowCreated(r) ==
  LET q == requests[r] IN
  /\ q.pc = "pin_create"
  /\ windows' = [windows EXCEPT ![q.win] = "open"]
  /\ pinPromptMap' = Append(pinPromptMap, [id |-> r, windowId |-> q.win])
  /\ requests' = [requests EXCEPT ![r].pc = "pin_wait"]
  /\ UNCHANGED <<clock, sitePermissions, storeLayer, handlers, guardVars, dedupVars,
                 openPromptMap, pendingWindowPromise, openPrompts, securityPreferences, brokerVars,
                 pinEnabled, cachedPin, logVars>>

\* windows.get(existingPinPrompt.windowId).then(win => res(win)): with the window
\* the prompt is registered; without it nothing settles openPinPromise, and
\* neither resolve nor reject of promptPin's promise is ever called
pinGet(found) == IF found THEN "pin_wait" ELSE "pin_lost"

\* windows.get settles
PinWindowGot(r) ==
  LET q == requests[r]
      found == windows[q.win] = "open"
  IN
  /\ q.pc = "pin_get"
  /\ pinPromptMap' = IF found THEN Append(pinPromptMap, [id |-> r, windowId |-> q.win])
                               ELSE pinPromptMap
  /\ requests' = [requests EXCEPT ![r].pc = pinGet(found)]
  /\ UNCHANGED <<clock, sitePermissions, storeLayer, handlers, guardVars, dedupVars,
                 promptVars, securityPreferences, brokerVars, pinEnabled, cachedPin, logVars>>

\* handlePinMessage, verifyPin with the right PIN sent from window w for one of
\* its prompts (its reads of the stored key and of the cache are taken as one
\* step): the PIN is cached, the prompt resolved and deleted, the window closed
handlePinMessage(w, id) ==
  /\ windows[w] = "open"
  /\ id \in pinPromptsOf(w)
  /\ cachedPin' = TRUE
  /\ pinPromptMap' = SelectSeq(pinPromptMap, LAMBDA e : e.id # id)
  /\ requests' = [requests EXCEPT ![id].pc = "exec", ![id].pinned = TRUE]
  /\ windows' = [windows EXCEPT ![w] = "closing"]
  /\ UNCHANGED <<clock, sitePermissions, storeLayer, handlers, guardVars, dedupVars,
                 openPromptMap, pendingWindowPromise, openPrompts, securityPreferences, brokerVars,
                 pinEnabled, logVars>>

----------------------------------------------------------------------------
(* Prompt decisions: handlePromptMessage and windows.onRemoved of          *)
(* background.ts.  A handler record is one handlePromptMessage call; queue *)
(* holds the prompts that closeAllAsync of onRemoved has still to reject.  *)
(* A null host is "null", a null sender is 0.  open is history: the id of  *)
(* the message matched an open prompt when the call began.                 *)

idleHandler ==
  [pc |-> "idle", id |-> 0, action |-> "reject", remember |-> FALSE,
   duration |-> "once", allowedKinds |-> <<>>, host |-> "null",
   capability |-> "signEvent", sender |-> 0, snap |-> emptyPerms, list |-> <<>>,
   queue |-> <<>>, open |-> TRUE]

freeHandler(hd) ==
  /\ handlers[hd].pc = "idle"
  /\ \A g \in Handlers : g < hd => handlers[g].pc # "idle"

\* the handler goes on without a store call, or after it: the prompt is deleted
\* from openPromptMap, then PromptManager.get or PromptManager.remove reads the list
afterDecision(h) ==
  [h EXCEPT !.pc = IF h.sender # 0 THEN "get" ELSE "rm",
            !.list = openPrompts, !.snap = emptyPerms]

\* (a slip: the answer of the prompt is not looked at)
resolvedIgnored(allowed) == "exec"

\* processRequest when promptForPermission has resolved: on to the execution, or
\* to incrementDenied and the permission-denied error
resolved(allowed) == IF allowed THEN "exec" ELSE "deny"

\* (a slip: the prompt is not looked up)
openPromptAssumed(id) == TRUE

\* openPromptMap[id] is there
openPrompt(id) == id \in promptIds

\* handlePromptMessage up to its first await.  resolve(true) lets the request
\* log "approved" and go on to the key; resolve(false) lets it start
\* incrementDenied.  Resolving a promise a second time does nothing.
handlePromptMessage(hd, id, action, remember, duration, allowedKinds, host, capability, sender, queue) ==
  LET known == openPrompt(id)
      waiting == id \in Reqs /\ requests[id].pc = "awaiting"
      stores == \/ action = "approve" /\ remember /\ host # "null"
                \/ action = "reject" /\ host # "null"
      h == [idleHandler EXCEPT !.id = id, !.action = action, !.remember = remember,
                               !.duration = duration, !.allowedKinds = allowedKinds,
                               !.host = host, !.capability = capability,
                               !.sender = sender, !.queue = queue,
                               !.open = id \in promptIds]
  IN
  /\ handlers' = [handlers EXCEPT ![hd] =
       IF ~known THEN [h EXCEPT !.pc = "rm", !.list = openPrompts]
       ELSE IF stores
         THEN [h EXCEPT !.pc = IF action = "approve" THEN "addGrant" ELSE "incDenied",
                        !.snap = sitePermissions]
       ELSE afterDecision(h)]
  /\ openPromptMap' =
       IF known /\ ~stores THEN withoutPrompt(openPromptMap, id) ELSE openPromptMap
  /\ requests' =
       IF known /\ waiting
         THEN [requests EXCEPT
                 ![id].pc = resolved(action = "approve"),
                 ![id].decision = action,
                 ![id].by = IF sender # 0 THEN "user" ELSE "close",
                 ![id].snap = IF resolved(action = "approve") = "exec"
                                THEN emptyPerms ELSE sitePermissions]
         ELSE requests
  /\ IF known /\ waiting /\ action = "approve"
       THEN logRequest(requests[id].type, requests[id].host, "approved", FALSE, id)
       ELSE noLog
  /\ rejectionCooldowns' =
       IF known /\ action = "reject" /\ host # "null"
         THEN setRejectionCooldown(rejectionCooldowns, host) ELSE rejectionCooldowns
  /\ lastRejected' =
       IF known /\ action = "reject" /\ host # "null"
         THEN [lastRejected EXCEPT ![host] = now] ELSE lastRejected

\* the user decides a prompt shown in window w: prompt.tsx sends the decision
\* with the host and the capability of the prompt item
Decide(hd, w, id, action, remember, duration) ==
  /\ freeHandler(hd)
  /\ windows[w] = "open"
  /\ InSeq(id, openPrompts)
  /\ id \in Reqs
  /\ handlePromptMessage(hd, id, action, remember, duration, <<>>, requests[id].host,
                         requests[id].type, w, <<>>)
  /\ UNCHANGED <<clock, sitePermissions, storeLayer, requestTimestamps, dedupVars,
                 pendingWindowPromise, windows, openPrompts, securityPreferences, sideVars>>

\* a response for a prompt that the user has answered already arrives (a second
\* click, a message sent twice), with whatever decision
Resend(hd, w, id, action, remember, duration) ==
  /\ freeHandler(hd)
  /\ id \in Reqs
  /\ requests[id].by = "user"
  /\ requests[id].win = w
  /\ handlePromptMessage(hd, id, action, remember, duration, <<>>, requests[id].host,
                         requests[id].type, w, <<>>)
  /\ UNCHANGED <<clock, sitePermissions, storeLayer, requestTimestamps, dedupVars,
                 pendingWindowPromise, windows, openPrompts, securityPreferences, sideVars>>

\* addGrant after its read
HandlerGrantWrite(hd) ==
  LET h == handlers[hd] IN
  /\ h.pc = "addGrant"
  /\ sitePermissions' =
       addGrant(h.snap, h.host, h.capability, h.duration, h.allowedKinds, nowSec)
  /\ handlers' = [handlers EXCEPT ![hd].pc = "addGrant_w", ![hd].snap = emptyPerms]
  /\ requests' = [requests EXCEPT ![h.id].grantedAt = now, ![h.id].remembered = h.duration]
  /\ UNCHANGED <<clock, storeLayer, guardVars, dedupVars, promptVars,
                 securityPreferences, sideVars, logVars>>

\* the write of addGrant or of incrementDenied has resolved
HandlerStored(hd) ==
  LET h == handlers[hd] IN
  /\ h.pc \in {"addGrant_w", "incDenied_w"}
  /\ openPromptMap' = withoutPrompt(openPromptMap, h.id)
  /\ handlers' = [handlers EXCEPT ![hd] = afterDecision(h)]
  /\ UNCHANGED <<clock, sitePermissions, storeLayer, guardVars, dedupVars,
                 pendingWindowPromise, windows, openPrompts, requests,
                 securityPreferences, sideVars, logVars>>

\* incrementDenied after its read; without a site record it returns at once
HandlerDeniedWrite(hd) ==
  LET h == handlers[hd] IN
  /\ h.pc = "incDenied"
  /\ IF h.snap[h.host] # NoSite
       THEN /\ sitePermissions' = incrementDenied(h.snap, h.host)
            /\ handlers' = [handlers EXCEPT ![hd].pc = "incDenied_w",
                                            ![hd].snap = emptyPerms]
            /\ UNCHANGED openPromptMap
       ELSE /\ openPromptMap' = withoutPrompt(openPromptMap, h.id)
            /\ handlers' = [handlers EXCEPT ![hd] = afterDecision(h)]
            /\ UNCHANGED sitePermissions
  /\ UNCHANGED <<clock, storeLayer, guardVars, dedupVars, pendingWindowPromise, windows,
                 openPrompts, requests, securityPreferences, sideVars, logVars>>

\* PromptManager.get has returned: with one prompt listed the sender's window is
\* removed (a window already gone makes the call fail and the handler return);
\* otherwise PromptManager.remove reads the list
HandlerGot(hd) ==
  LET h == handlers[hd] IN
  /\ h.pc = "get"
  /\ IF Len(h.list) = 1
       THEN IF windows[h.sender] = "open"
              THEN /\ windows' = [windows EXCEPT ![h.sender] = "closing"]
                   /\ handlers' = [handlers EXCEPT ![hd].pc = "remove_w",
                                                   ![hd].list = <<>>]
              ELSE /\ handlers' = [handlers EXCEPT ![hd] = idleHandler]
                   /\ UNCHANGED windows
       ELSE /\ handlers' = [handlers EXCEPT ![hd].pc = "rm", ![hd].list = openPrompts]
            /\ UNCHANGED windows
  /\ UNCHANGED <<clock, sitePermissions, storeLayer, guardVars, dedupVars, openPromptMap,
                 pendingWindowPromise, openPrompts, requests, securityPreferences, sideVars,
                 logVars>>

\* windows.remove has resolved: PromptManager.remove reads the list
HandlerWindowRemoved(hd) ==
  /\ handlers[hd].pc = "remove_w"
  /\ handlers' = [handlers EXCEPT ![hd].pc = "rm", ![hd].list = openPrompts]
  /\ UNCHANGED <<clock, sitePermissions, storeLayer, guardVars, dedupVars, promptVars,
                 requests, securityPreferences, sideVars, logVars>>

\* PromptManager.remove after its read: the list it read, without the prompt
HandlerRemoveWrite(hd) ==
  LET h == handlers[hd] IN
  /\ h.pc = "rm"
  /\ openPrompts' = SelectSeq(h.list, LAMBDA i : i # h.id)
  /\ handlers' = [handlers EXCEPT ![hd].pc = "rm_w", ![hd].list = <<>>]
  /\ UNCHANGED <<clock, sitePermissions, storeLayer, guardVars, dedupVars, openPromptMap,
                 pendingWindowPromise, windows, requests, securityPreferences, sideVars, logVars>>

\* handlePromptMessage returns; closeAllAsync goes on with its next prompt
HandlerReturn(hd) ==
  LET h == handlers[hd] IN
  /\ h.pc = "rm_w"
  /\ IF h.queue = <<>>
       THEN /\ handlers' = [handlers EXCEPT ![hd] = idleHandler]
            /\ UNCHANGED <<openPromptMap, requests, rejectionCooldowns, lastRejected>>
            /\ noLog
       ELSE handlePromptMessage(hd, Head(h.queue), "reject", FALSE, "once", <<>>, "null",
                                "signEvent", 0, Tail(h.queue))
  /\ UNCHANGED <<clock, sitePermissions, storeLayer, requestTimestamps, dedupVars,
                 pendingWindowPromise, windows, openPrompts, securityPreferences, sideVars>>

\* (a slip: only the first prompt of the window is taken)
firstPromptOf(w) ==
  LET es == SelectSeq(openPromptMap, LAMBDA e : e.windowId = w)
  IN IF es = <<>> THEN <<>> ELSE <<es[1].id>>

\* the prompts registered for window w, in the order of Object.values
promptsOf(w) ==
  LET es == SelectSeq(openPromptMap, LAMBDA e : e.windowId = w)
  IN [i \in 1..Len(es) |-> es[i].id]

\* the user closes an approval window; history: the undecided requests whose
\* prompts are attached to it are marked
UserClose(w) ==
  /\ windows[w] = "open"
  /\ windows' = [windows EXCEPT ![w] = "closing"]
  /\ requests' = [r \in Reqs |->
       IF /\ requests[r].pc = "awaiting"
          /\ \E i \in 1..Len(openPromptMap) :
               openPromptMap[i].id = r /\ openPromptMap[i].windowId = w
         THEN [requests[r] EXCEPT !.closed = TRUE] ELSE requests[r]]
  /\ UNCHANGED <<clock, sitePermissions, storeLayer, guardVars, dedupVars, openPromptMap,
                 pendingWindowPromise, openPrompts, handlers, securityPreferences, sideVars,
                 logVars>>

\* pinPrompt.reject: promptPin throws in getDecryptedPrivateKey, which
\* processRequest calls before its try block, so the requests' promises reject
RECURSIVE pinRejected(_, _)
pinRejected(reqs, ids) ==
  IF ids = {} THEN reqs
  ELSE LET r == CHOOSE x \in ids : TRUE
       IN pinRejected(settle(reqs, r, "rejected"), ids \ {r})

\* the dedup entries of those requests go with their promises
pinSettled(ids) ==
  {e \in pendingSignRequests :
     \A r \in ids : ~(requests[r].dedup = "owner" /\ e.fp = fingerprintOf(requests[r]))}

\* windows.onRemoved: closeAllAsync rejects the prompts of the window one by one,
\* in a handler record of its own when there is any
OnRemoved(hd, w) ==
  /\ windows[w] = "closing"
  /\ windows' = [windows EXCEPT ![w] = "closed"]
  /\ IF promptsOf(w) = <<>>
       THEN /\ UNCHANGED <<handlers, openPromptMap, rejectionCooldowns, lastRejected>>
            /\ requests' = pinRejected(requests, pinPromptsOf(w))
            /\ pendingSignRequests' = pinSettled(pinPromptsOf(w))
            /\ noLog
       ELSE /\ freeHandler(hd)
            /\ handlePromptMessage(hd, Head(promptsOf(w)), "reject", FALSE, "once",
                                   <<>>, "null", "signEvent", 0, Tail(promptsOf(w)))
            /\ UNCHANGED pendingSignRequests
  /\ pinPromptMap' = SelectSeq(pinPromptMap, LAMBDA e : e.windowId # w)
  /\ UNCHANGED <<clock, sitePermissions, storeLayer, requestTimestamps, dedupTimers,
                 pendingWindowPromise, openPrompts, securityPreferences, brokerVars, pinEnabled,
                 cachedPin>>

----------------------------------------------------------------------------
\* time passes
Tick(d) ==
  /\ ticks < MaxTicks
  /\ now' = now + d
  /\ ticks' = ticks + 1
  /\ UNCHANGED <<sitePermissions, storeLayer, pipeline>>

Init ==
  /\ now = 0
  /\ ticks = 0
  /\ sitePermissions = emptyPerms
  /\ storeTasks = [t \in StoreTasks |-> idleTask]
  /\ calls = 0
  /\ foreverGranted = {}
  /\ requests = <<>>
  /\ handlers = [hd \in Handlers |-> idleHandler]
  /\ openPromptMap = <<>>
  /\ pendingWindowPromise = null
  /\ windows = [w \in WinIds |-> "none"]
  /\ openPrompts = <<>>
  /\ requestTimestamps = [h \in Hosts |-> <<>>]
  /\ rejectionCooldowns = [h \in Hosts |-> 0]
  /\ lastRejected = [h \in Hosts |-> null]
  /\ pendingSignRequests = {}
  /\ dedupTimers = {}
  /\ securityPreferences = DEFAULT_SECURITY_PREFERENCES
  /\ entries = <<>>
  /\ nextId = 1
  /\ suppressedCount = 0
  /\ initialized = FALSE
  /\ loaded = NoAudit
  /\ auditStore = NoAudit
  /\ flushTimer = FALSE
  /\ flushDue = 0
  /\ lastScheduled = 0
  /\ flushTasks = [f \in FlushTasks |-> "idle"]
  /\ issued = <<>>
  /\ pinEnabled = FALSE
  /\ cachedPin = FALSE
  /\ pinPromptMap = <<>>
  /\ sessionTokens = {}
  /\ tokenTasks = [o \in Origins |-> idleTokenTask]
  /\ tokenCalls = 0
  /\ ownTokens = [o \in Origins |-> {}]
  /\ relayAuthGrants = noRelayGrants
  /\ startup = idleStartup


----------------------------------------------------------------------------
(* The grant store alone, called from any context *)

StoreHosts == {"h1", "h2"}
StoreCaps == {"signEvent", "nip04.decrypt"}
StoreDurations == {"once", "session", "forever"}
StoreTickSteps == {1000}

NextStore ==
  \/ \E t \in StoreTasks, h \in StoreHosts : CallTouchSite(t, h)
  \/ \E t \in StoreTasks, h \in StoreHosts : CallIncrementDenied(t, h)
  \/ \E t \in StoreTasks, h \in StoreHosts, c \in StoreCaps, d \in StoreDurations :
       CallAddGrant(t, h, c, d, <<>>)
  \/ \E t \in StoreTasks, h \in StoreHosts, c \in StoreCaps : CallConsumeOnceGrant(t, h, c)
  \/ \E t \in StoreTasks, h \in StoreHosts, c \in StoreCaps : CallRevokeGrant(t, h, c)
  \/ \E t \in StoreTasks, h \in StoreHosts : CallRevokeAllGrants(t, h)
  \/ \E t \in StoreTasks, h \in StoreHosts : CallRemoveSite(t, h)
  \/ \E t \in StoreTasks : CallPurgeExpiredGrants(t)
  \/ \E t \in StoreTasks : CallClearSessionGrants(t)
  \/ \E t \in StoreTasks : StoreContinue(t)
  \/ \E t \in StoreTasks : StoreReturn(t)
  \/ \E d \in StoreTickSteps : Tick(d)

SpecStore == Init /\ [][NextStore]_vars

----------------------------------------------------------------------------
(* addGrant among the calls that requests make on the site-permissions    *)
(* map: touchSite, incrementDenied and consumeOnceGrant.                   *)

WriteBackDurations == {"once", "forever"}

NextWriteBack ==
  \/ \E t \in StoreTasks, h \in StoreHosts : CallTouchSite(t, h)
  \/ \E t \in StoreTasks, h \in StoreHosts : CallIncrementDenied(t, h)
  \/ \E t \in StoreTasks, h \in StoreHosts, c \in StoreCaps, d \in WriteBackDurations :
       CallAddGrant(t, h, c, d, <<>>)
  \/ \E t \in StoreTasks, h \in StoreHosts, c \in StoreCaps : CallConsumeOnceGrant(t, h, c)
  \/ \E t \in StoreTasks : StoreContinue(t)
  \/ \E t \in StoreTasks : StoreReturn(t)

SpecWriteBack == Init /\ [][NextWriteBack]_vars


(* hasActiveGrant against the grants addGrant has written, for one host *)

CheckDurations == {"once", "5m", "forever"}
CheckKindLists == {<<>>, <<1>>}
CheckKinds == {undefined, 1, 7}
CheckTickSteps == {1000, 300000}

NextGrantCheck ==
  \/ \E t \in StoreTasks, d \in CheckDurations, ak \in CheckKindLists :
       CallAddGrant(t, "h1", "signEvent", d, ak)
  \/ \E t \in StoreTasks, k \in CheckKinds : CallHasActiveGrant(t, "h1", "signEvent", k)
  \/ \E t \in StoreTasks : CallConsumeOnceGrant(t, "h1", "signEvent")
  \/ \E t \in StoreTasks : StoreContinue(t)
  \/ \E t \in StoreTasks : StoreReturn(t)
  \/ \E d \in CheckTickSteps : Tick(d)

SpecGrantCheck == Init /\ [][NextGrantCheck]_vars

----------------------------------------------------------------------------
(* Requests of one host that need a prompt, the user's decisions (with and *)
(* without a remembered once grant) and window closures                    *)

PromptReqs == 2

\* decisions are handled one at a time
OneHandler == {1}

\* nothing is in progress: every request waits for a decision, for the request
\* it was deduplicated onto, or is done, and no decision is being handled
quiet ==
  /\ \A r \in Reqs : /\ requests[r].pc \in {"awaiting", "deduped", "done"}
                      /\ requests[r].add = "none"
  /\ \A hd \in Handlers : handlers[hd].pc = "idle"
  /\ \A w \in WinIds : windows[w] \notin {"creating", "closing"}

\* the steps every request and every decision handler takes by itself
RequestSteps ==
  \/ \E r \in Reqs : TouchWrite(r)
  \/ \E r \in Reqs : Guards(r)
  \/ \E r \in Reqs : GrantLookup(r)
  \/ \E r \in Reqs : GrantCheck(r)
  \/ \E r \in Reqs : PromptOpen(r)
  \/ \E w \in WinIds : WindowCreated(w)
  \/ \E r \in Reqs : PromptAddWrite(r)

HandlerSteps ==
  \/ \E hd \in Handlers : HandlerGot(hd)
  \/ \E hd \in Handlers : HandlerWindowRemoved(hd)
  \/ \E hd \in Handlers : HandlerRemoveWrite(hd)
  \/ \E hd \in Handlers : HandlerReturn(hd)

RejectionSteps ==
  \/ \E hd \in Handlers : HandlerDeniedWrite(hd)
  \/ \E hd \in Handlers : HandlerStored(hd)
  \/ \E r \in Reqs : DenyWrite(r)
  \/ \E r \in Reqs : DenyDone(r)

NextPrompt ==
  \/ /\ Len(requests) < PromptReqs
     /\ Arrive("h1", "signEvent", 1, Len(requests) + 1, "absent")
  \/ RequestSteps
  \/ \E r \in Reqs : WindowGot(r)
  \/ \E r \in Reqs : Execute(r, "ok")
  \/ \E hd \in OneHandler, w \in WinIds, id \in Reqs, a \in {"approve", "reject"},
        m \in BOOLEAN : id \in promptIds /\ Decide(hd, w, id, a, m, "once")
  \/ \E hd \in Handlers : HandlerGrantWrite(hd)
  \/ HandlerSteps
  \/ RejectionSteps
  \/ \E w \in WinIds : UserClose(w)
  \/ \E hd \in OneHandler, w \in WinIds : OnRemoved(hd, w)

SpecPrompt == Init /\ [][NextPrompt]_vars

\* what the event loop does by itself: every continuation that is ready runs, and
\* every event of the browser is delivered
PromptProgress ==
  \/ RequestSteps
  \/ \E r \in Reqs : WindowGot(r)
  \/ \E r \in Reqs : Execute(r, "ok")
  \/ \E hd \in Handlers : HandlerGrantWrite(hd)
  \/ HandlerSteps
  \/ RejectionSteps
  \/ \E hd \in OneHandler, w \in WinIds : OnRemoved(hd, w)

SpecPromptFair == SpecPrompt /\ WF_vars(PromptProgress)

----------------------------------------------------------------------------
(* Identical requests (one fingerprint) from two hosts, while the dedup    *)
(* timers run                                                              *)

DedupReqs == 2
DedupHosts == {"h1", "h2"}
DedupTickSteps == {DEDUP_TTL_MS}

NextDedup ==
  \/ \E h \in DedupHosts :
       /\ Len(requests) < DedupReqs
       /\ Arrive(h, "signEvent", 1, 1, "absent")
  \/ RequestSteps
  \/ \E r \in Reqs : WindowGot(r)
  \/ \E r \in Reqs : Execute(r, "ok")
  \/ \E hd \in OneHandler, w \in WinIds, id \in Reqs :
       id \in promptIds /\ Decide(hd, w, id, "approve", FALSE, "once")
  \/ HandlerSteps
  \/ \E hd \in OneHandler, w \in WinIds : OnRemoved(hd, w)
  \/ \E t \in dedupTimers : TimerFire(t.fp, t.due)
  \/ \E d \in DedupTickSteps : Tick(d)

SpecDedup == Init /\ [][NextDedup]_vars

----------------------------------------------------------------------------
(* Many distinct requests that all need a prompt and get no decision: ten  *)
(* from each host, so that the rate limiter lets them through.  They come  *)
(* one after the other until the queue is one short of its cap, and then   *)
(* QueueInFlight at a time.                                                *)

QueueReqs == PROMPT_QUEUE_CAP + 1
QueueInFlight == 2

queueHost(n) ==
  IF n <= RATE_LIMIT_MAX THEN "h1"
  ELSE IF n <= 2 * RATE_LIMIT_MAX THEN "h2" ELSE "h3"

\* the requests that have not yet come to rest
inFlight ==
  {r \in Reqs : requests[r].pc \notin {"awaiting", "done"} \/ requests[r].add = "read"}

NextQueue ==
  \/ /\ Len(requests) < QueueReqs
     /\ Cardinality(inFlight) <
          (IF Len(openPromptMap) >= PROMPT_QUEUE_CAP - 1 THEN QueueInFlight ELSE 1)
     /\ Arrive(queueHost(Len(requests) + 1), "nip04.decrypt", undefined,
               Len(requests) + 1, "absent")
  \/ RequestSteps
  \/ \E r \in Reqs : WindowGot(r)

SpecQueue == Init /\ [][NextQueue]_vars

----------------------------------------------------------------------------
(* A burst of identical requests of one host against the rate limiter,     *)
(* where the user may reject the prompt that comes up                      *)

RateReqs == RATE_LIMIT_MAX + 2
RateTickSteps == {2500, 5000}

\* requests, decisions and clock advances come one at a time, each when the
\* previous one has been worked off
NextRate ==
  \/ /\ Len(requests) < RateReqs
     /\ quiet
     /\ Arrive("h1", "signEvent", 1, 1, "absent")
  \/ RequestSteps
  \/ \E hd \in OneHandler, w \in WinIds, id \in Reqs :
       quiet /\ id \in promptIds /\ Decide(hd, w, id, "reject", FALSE, "once")
  \/ HandlerSteps
  \/ \E hd \in OneHandler, w \in WinIds : OnRemoved(hd, w)
  \/ RejectionSteps
  \/ \E d \in RateTickSteps : quiet /\ Tick(d)

SpecRate == Init /\ [][NextRate]_vars

----------------------------------------------------------------------------
(* Requests of one host, prompted and auto-approved ones, around the       *)
(* user's rejections and the cooldown that follows them                    *)

CooldownReqs == 3
CooldownTypes == {"signEvent", "getPublicKey"}
CooldownTickSteps == {15000, 30000}

\* requests, decisions and clock advances come one at a time
NextCooldown ==
  \/ \E type \in CooldownTypes :
       /\ Len(requests) < CooldownReqs
       /\ quiet
       /\ Arrive("h1", type, IF type = "signEvent" THEN 1 ELSE undefined,
                 IF type = "signEvent" THEN Len(requests) + 1 ELSE 0, "absent")
  \/ RequestSteps
  \/ \E r \in Reqs : WindowGot(r)
  \/ \E r \in Reqs : Execute(r, "ok")
  \/ \E hd \in OneHandler, w \in WinIds, id \in Reqs, a \in {"approve", "reject"} :
       quiet /\ id \in promptIds /\ Decide(hd, w, id, a, FALSE, "once")
  \/ HandlerSteps
  \/ \E hd \in OneHandler, w \in WinIds : OnRemoved(hd, w)
  \/ RejectionSteps
  \/ \E d \in CooldownTickSteps : quiet /\ Tick(d)

SpecCooldown == Init /\ [][NextCooldown]_vars

----------------------------------------------------------------------------
(* All the guards at once: a scripted run of distinct requests that need a *)
(* prompt (twelve of the first host, then ten of the second, then the      *)
(* third), with one decision of the user on the prompt shown first and an  *)
(* auto-approved request of the first host at any point in between         *)

GuardReqs == PROMPT_QUEUE_CAP + 4
GuardAutoReqs == 1
GuardDecisions == 1

guardHost(n) ==
  IF n <= RATE_LIMIT_MAX + 2 THEN "h1"
  ELSE IF n <= 2 * RATE_LIMIT_MAX + 2 THEN "h2" ELSE "h3"

autoRequests == {r \in Reqs : requests[r].type \in AUTO_APPROVE_TYPES}

\* the requests the user has decided
decided ==
  {r \in Reqs : \/ requests[r].pc \in {"deny", "denied"}
                \/ logged(r, "approved")
                \/ logged(r, "rejected")}

NextGuards ==
  \/ /\ Len(requests) - Cardinality(autoRequests) < GuardReqs
     /\ quiet
     /\ Arrive(guardHost(Len(requests) - Cardinality(autoRequests) + 1),
               "nip04.decrypt", undefined, Len(requests) + 1, "absent")
  \/ \E type \in AUTO_APPROVE_TYPES :
       /\ Cardinality(autoRequests) < GuardAutoReqs
       /\ quiet
       /\ Arrive("h1", type, undefined, 0, "absent")
  \/ RequestSteps
  \/ \E r \in Reqs : WindowGot(r)
  \/ \E r \in Reqs : Execute(r, "ok")
  \/ \E hd \in OneHandler, w \in WinIds, a \in {"approve", "reject"} :
       /\ quiet
       /\ Cardinality(decided) < GuardDecisions
       /\ openPromptMap # <<>>
       /\ Decide(hd, w, openPromptMap[1].id, a, FALSE, "once")
  \/ HandlerSteps
  \/ \E hd \in OneHandler, w \in WinIds : OnRemoved(hd, w)
  \/ RejectionSteps

SpecGuards == Init /\ [][NextGuards]_vars

----------------------------------------------------------------------------
(* Requests of every kind of one host, decided by the user and executed    *)
(* with every outcome of the key retrieval and of the operation            *)

ExecReqs == 2
ExecTypes == {"signEvent", "nip04.decrypt", "getPublicKey", "getRelays"}
ExecAuthors == {"absent", "own", "other"}
ExecOutcomes == {"ok", "nokey", "keythrow", "derivethrow", "throw"}

NextExec ==
  \/ \E type \in ExecTypes, pubkey \in ExecAuthors :
       /\ Len(requests) < ExecReqs
       /\ quiet
       /\ type # "signEvent" => pubkey = "absent"
       /\ Arrive("h1", type, IF type = "signEvent" THEN 1 ELSE undefined,
                 IF type \in AUTO_APPROVE_TYPES THEN 0 ELSE Len(requests) + 1, pubkey)
  \/ RequestSteps
  \/ \E r \in Reqs : WindowGot(r)
  \/ \E r \in Reqs, outcome \in ExecOutcomes : Execute(r, outcome)
  \/ \E hd \in OneHandler, w \in WinIds, id \in Reqs, a \in {"approve", "reject"} :
       quiet /\ id \in promptIds /\ Decide(hd, w, id, a, FALSE, "once")
  \/ HandlerSteps
  \/ \E hd \in OneHandler, w \in WinIds : OnRemoved(hd, w)
  \/ RejectionSteps

SpecExec == Init /\ [][NextExec]_vars

----------------------------------------------------------------------------
(* The audit log's own operations: requestLog.ts.  A storage call takes    *)
(* effect when it is issued; the function that issued it continues in a    *)
(* later step.  storage.remove is taken to succeed.                        *)

notLog == <<clock, sitePermissions, storeLayer, requests, handlers, guardVars,
            dedupVars, promptVars, securityPreferences, sideVars>>

\* what flushToStorage hands to storage.set
snapshot(es) == [stored |-> TRUE, entries |-> es, nextId |-> nextId, suppressedCount |-> suppressedCount]

\* a call of logRequest that no request of the model stands behind
LogCall(max, type, host, disposition, silent) ==
  /\ Len(issued) < max
  /\ logRequest(type, host, disposition, silent, 0)
  /\ UNCHANGED notLog

\* loadFromStorage, from the answer of its storage.get on
loadFromStorage(outcome) ==
  /\ ~initialized
  /\ initialized' = TRUE
  /\ IF outcome = "ok"
       THEN LET es == IF loaded.stored THEN loaded.entries ELSE entries
            IN /\ entries' = es
               /\ nextId' = IF loaded.stored THEN loaded.nextId
                            ELSE IF Len(es) > 0 THEN es[Len(es)].id + 1 ELSE nextId
               /\ suppressedCount' = IF loaded.stored THEN loaded.suppressedCount
                                     ELSE suppressedCount
       ELSE UNCHANGED <<entries, nextId, suppressedCount>>
  /\ UNCHANGED <<loaded, auditStore, flushTimer, flushTasks, issued, debounce, notLog>>

clearSuppressedCount ==
  /\ suppressedCount' = 0
  /\ scheduleFlush
  /\ UNCHANGED <<entries, nextId, initialized, loaded, auditStore, flushTasks, issued, notLog>>

clearLog ==
  /\ entries' = <<>>
  /\ suppressedCount' = 0
  /\ scheduleFlush
  /\ UNCHANGED <<nextId, initialized, loaded, auditStore, flushTasks, issued, notLog>>

clearLogFromStorage ==
  /\ entries' = <<>>
  /\ suppressedCount' = 0
  /\ nextId' = 1
  /\ auditStore' = NoAudit
  /\ UNCHANGED <<initialized, loaded, flushTimer, flushTasks, issued, debounce, notLog>>

\* the debounce timer fires: flushToStorage up to its storage.set, which
\* succeeds, fails for quota or fails for another reason
flushToStorage(f, outcome) ==
  /\ flushTimer
  /\ flushTasks[f] = "idle"
  /\ flushTimer' = FALSE
  /\ auditStore' = IF outcome = "ok" THEN snapshot(entries) ELSE auditStore
  /\ flushTasks' = [flushTasks EXCEPT ![f] = outcome]
  /\ UNCHANGED <<entries, nextId, suppressedCount, initialized, loaded, issued, debounce, notLog>>

quarterFromFront(es) == IF Len(es) <= MAX_ENTRIES \div 4 THEN es ELSE SubSeq(es, 1, MAX_ENTRIES \div 4)
\* entries.slice(-Math.floor(MAX_ENTRIES / 4))
quarter(es) ==
  IF Len(es) <= MAX_ENTRIES \div 4 THEN es
  ELSE SubSeq(es, Len(es) - (MAX_ENTRIES \div 4) + 1, Len(es))

\* the catch of the first storage.set: on quota the log is trimmed and
\* written once more, and that write succeeds or fails; another error is
\* only printed
flushCatch(f, outcome) ==
  /\ flushTasks[f] \in {"quota", "other"}
  /\ IF flushTasks[f] = "quota"
       THEN /\ entries' = quarter(entries)
            /\ auditStore' = IF outcome = "ok" THEN snapshot(quarter(entries)) ELSE auditStore
            /\ flushTasks' = [flushTasks EXCEPT ![f] = IF outcome = "ok" THEN "ok" ELSE "retry-failed"]
       ELSE /\ outcome = "ok"
            /\ flushTasks' = [flushTasks EXCEPT ![f] = "idle"]
            /\ UNCHANGED <<entries, auditStore>>
  /\ UNCHANGED <<nextId, suppressedCount, initialized, loaded, flushTimer, issued, debounce, notLog>>

\* the catch of the second storage.set
flushRetryCatch(f) ==
  /\ flushTasks[f] = "retry-failed"
  /\ entries' = <<>>
  /\ suppressedCount' = 0
  /\ auditStore' = NoAudit
  /\ flushTasks' = [flushTasks EXCEPT ![f] = "removing"]
  /\ UNCHANGED <<nextId, initialized, loaded, flushTimer, issued, debounce, notLog>>

\* flushToStorage returns
flushReturn(f) ==
  /\ flushTasks[f] \in {"ok", "removing"}
  /\ flushTasks' = [flushTasks EXCEPT ![f] = "idle"]
  /\ UNCHANGED <<entries, nextId, suppressedCount, initialized, loaded, auditStore,
                 flushTimer, issued, debounce, notLog>>

FlushSteps ==
  \/ \E f \in FlushTasks, outcome \in {"ok", "failed"} : flushCatch(f, outcome)
  \/ \E f \in FlushTasks : flushRetryCatch(f)
  \/ \E f \in FlushTasks : flushReturn(f)

\* the background page is unloaded and loaded again: the module's variables
\* start over, its timers and calls in progress are gone, and
\* loadFromStorage is called
Restart ==
  /\ entries' = <<>>
  /\ nextId' = 1
  /\ suppressedCount' = 0
  /\ initialized' = FALSE
  /\ loaded' = auditStore
  /\ flushTimer' = FALSE
  /\ flushTasks' = [f \in FlushTasks |-> "idle"]
  /\ UNCHANGED <<auditStore, issued, debounce, notLog>>

\* Storage.updateSecurityPreference, for one caller at a time
updateSecurityPreference(key, value) ==
  /\ securityPreferences' = [securityPreferences EXCEPT ![key] = value]
  /\ UNCHANGED <<clock, sitePermissions, storeLayer, requests, handlers, guardVars,
                 dedupVars, promptVars, sideVars, logVars>>

----------------------------------------------------------------------------
(* The audit log under a long run of calls and a change of the preferred   *)
(* maximum.                                                                *)

MaxLogCalls == 502
AuditLimits == {2, 500}

NextLogCalls ==
  \/ LogCall(MaxLogCalls, "getPublicKey", "h1", "auto-approved", TRUE)
  \/ \E v \in AuditLimits : updateSecurityPreference("maxAuditLogEntries", v)

SpecLogCalls == Init /\ [][NextLogCalls]_vars

----------------------------------------------------------------------------
(* The audit log over loads, clears, flushes and restarts.                 *)

MaxLifeCalls == 3

NextLog ==
  \/ \E silent \in BOOLEAN : LogCall(MaxLifeCalls, "signEvent", "h1", "approved", silent)
  \/ \E outcome \in {"ok", "failed"} : loadFromStorage(outcome)
  \/ clearSuppressedCount
  \/ clearLog
  \/ clearLogFromStorage
  \/ \E f \in FlushTasks, outcome \in {"ok", "quota", "other"} : flushToStorage(f, outcome)
  \/ FlushSteps
  \/ Restart

SpecLog == Init /\ [][NextLog]_vars

----------------------------------------------------------------------------
(* The flush after a burst of calls: the calls of the burst come within    *)
(* FLUSH_DELAY_MS of one another, so the debounced timer fires only after  *)
(* the burst.                                                              *)

Burst == 125
MaxFlushCalls == 128

NextFlush ==
  \/ \E silent \in BOOLEAN :
       LogCall(MaxFlushCalls, "signEvent", "h1", "approved", Len(issued) >= Burst /\ silent)
  \/ \E f \in FlushTasks, outcome \in {"ok", "quota", "other"} :
       Len(issued) >= Burst /\ flushToStorage(f, outcome)
  \/ FlushSteps

SpecFlush == Init /\ [][NextFlush]_vars

----------------------------------------------------------------------------
(* The guards where more than one of them trips: a scripted run of         *)
(* requests that need a prompt, ten of the first host, ten of the second,  *)
(* five of the third, then two more of the first and two more of the       *)
(* third, no time passing.  One of them may repeat the first request of    *)
(* its host, and the user may reject the prompt shown first.               *)

OrderReqs == PROMPT_QUEUE_CAP + 4
OrderRepeats == 1
OrderDecisions == 1

orderHost(n) ==
  IF n <= RATE_LIMIT_MAX THEN "h1"
  ELSE IF n <= 2 * RATE_LIMIT_MAX THEN "h2"
  ELSE IF n <= PROMPT_QUEUE_CAP THEN "h3"
  ELSE IF n <= PROMPT_QUEUE_CAP + 2 THEN "h1" ELSE "h3"

\* the first request of the host in the script
firstOf(host) == IF host = "h1" THEN 1 ELSE IF host = "h2" THEN RATE_LIMIT_MAX + 1 ELSE 2 * RATE_LIMIT_MAX + 1

\* the requests that repeat an earlier one
repeats == {r \in Reqs : requests[r].content # r}

NextOrder ==
  \/ \E c \in {Len(requests) + 1, firstOf(orderHost(Len(requests) + 1))} :
       /\ Len(requests) < OrderReqs
       /\ quiet
       /\ c # Len(requests) + 1 => Cardinality(repeats) < OrderRepeats
       /\ Arrive(orderHost(Len(requests) + 1), "nip04.decrypt", undefined, c, "absent")
  \/ RequestSteps
  \/ \E r \in Reqs : WindowGot(r)
  \/ \E hd \in OneHandler, w \in WinIds :
       /\ quiet
       /\ Cardinality(decided) < OrderDecisions
       /\ openPromptMap # <<>>
       /\ Decide(hd, w, openPromptMap[1].id, "reject", FALSE, "once")
  \/ HandlerSteps
  \/ RejectionSteps

SpecOrder == Init /\ [][NextOrder]_vars

----------------------------------------------------------------------------
(* Requests that need a prompt, one arriving when the ones before it have  *)
(* reached promptForPermission's window or ended, while the user closes    *)
(* approval windows without deciding.                                      *)

GateReqs == 3

\* every request made so far waits for a window or a decision, or is past it
atPrompt ==
  \A r \in Reqs : requests[r].pc \in {"win_get", "win_join", "awaiting", "deny", "denied", "done"}

NextGate ==
  \/ /\ Len(requests) < GateReqs
     /\ atPrompt
     /\ Arrive("h1", "signEvent", 1, Len(requests) + 1, "absent")
  \/ RequestSteps
  \/ \E r \in Reqs : WindowGot(r)
  \/ \E hd \in Handlers : HandlerRemoveWrite(hd)
  \/ \E hd \in Handlers : HandlerReturn(hd)
  \/ \E r \in Reqs : DenyWrite(r)
  \/ \E r \in Reqs : DenyDone(r)
  \/ \E w \in WinIds : UserClose(w)
  \/ \E hd \in OneHandler, w \in WinIds : OnRemoved(hd, w)

SpecGate == Init /\ [][NextGate]_vars

----------------------------------------------------------------------------
(* Bursts of calls on the audit log with the time between them: the timer  *)
(* set by scheduleFlush fires when its delay has passed.                   *)

MaxBurstCalls == 3
BurstTickSteps == {500, 1000}

\* the callback of setTimeout(flushToStorage, FLUSH_DELAY_MS) runs
timerFires(f, outcome) ==
  /\ now >= flushDue
  /\ flushToStorage(f, outcome)

NextBurst ==
  \/ \E silent \in BOOLEAN : LogCall(MaxBurstCalls, "signEvent", "h1", "approved", silent)
  \/ clearSuppressedCount
  \/ clearLog
  \/ \E d \in BurstTickSteps : Tick(d)
  \/ \E f \in FlushTasks, outcome \in {"ok", "quota", "other"} : timerFires(f, outcome)
  \/ FlushSteps

SpecBurst == Init /\ [][NextBurst]_vars

----------------------------------------------------------------------------
(* signEvent requests of kinds of every risk, one after the other, while   *)
(* the user grants for ever and switches alwaysPromptCritical.             *)

RiskReqs == 2
RiskKinds == {1, 9734, 25000, 50000}

NextRisk ==
  \/ \E kind \in RiskKinds :
       /\ Len(requests) < RiskReqs
       /\ quiet
       /\ Arrive("h1", "signEvent", kind, Len(requests) + 1, "absent")
  \/ RequestSteps
  \/ \E r \in Reqs : WindowGot(r)
  \/ \E r \in Reqs : Execute(r, "ok")
  \/ \E hd \in OneHandler, w \in WinIds, id \in Reqs, m \in BOOLEAN :
       quiet /\ id \in promptIds /\ Decide(hd, w, id, "approve", m, "forever")
  \/ \E hd \in Handlers : HandlerGrantWrite(hd)
  \/ HandlerSteps
  \/ \E hd \in Handlers : HandlerStored(hd)
  \/ \E hd \in OneHandler, w \in WinIds : OnRemoved(hd, w)
  \/ \E v \in BOOLEAN : quiet /\ updateSecurityPreference("alwaysPromptCritical", v)

SpecRisk == Init /\ [][NextRisk]_vars

----------------------------------------------------------------------------
(* Kind-1 signEvent requests of one host whose prompts the user approves   *)
(* for one hour, remembered.  Time passes between the requests.            *)

RememberReqs == 2
RememberTickSteps == {1800000, 3600000}

NextRemember ==
  \/ /\ Len(requests) < RememberReqs
     /\ Arrive("h1", "signEvent", 1, Len(requests) + 1, "absent")
  \/ RequestSteps
  \/ \E r \in Reqs : WindowGot(r)
  \/ \E r \in Reqs : Execute(r, "ok")
  \/ \E hd \in OneHandler, w \in WinIds, id \in Reqs :
       id \in promptIds /\ Decide(hd, w, id, "approve", TRUE, "1h")
  \/ \E hd \in Handlers : HandlerGrantWrite(hd)
  \/ HandlerSteps
  \/ \E hd \in Handlers : HandlerStored(hd)
  \/ \E hd \in OneHandler, w \in WinIds : OnRemoved(hd, w)
  \/ \E d \in RememberTickSteps : quiet /\ Tick(d)

SpecRemember == Init /\ [][NextRemember]_vars

----------------------------------------------------------------------------
(* Requests for the public key while the PIN protection is on.             *)

PinReqs == 2

NextPin ==
  \/ setPinEnabled
  \/ /\ Len(requests) < PinReqs
     /\ pinEnabled
     /\ Arrive("h1", "getPublicKey", undefined, 0, "absent")
  \/ \E r \in Reqs : TouchWrite(r)
  \/ \E r \in Reqs : Guards(r)
  \/ \E r \in Reqs : promptPin(r)
  \/ \E r \in Reqs : PinWindowCreated(r)
  \/ \E r \in Reqs : PinWindowGot(r)
  \/ \E w \in WinIds, id \in Reqs : handlePinMessage(w, id)
  \/ \E r \in Reqs, outcome \in {"ok", "keythrow"} : Execute(r, outcome)
  \/ \E w \in WinIds : UserClose(w)
  \/ \E hd \in OneHandler, w \in WinIds : OnRemoved(hd, w)

SpecPin == Init /\ [][NextPin]_vars

\* what the event loop does by itself
PinProgress ==
  \/ \E r \in Reqs : TouchWrite(r)
  \/ \E r \in Reqs : Guards(r)
  \/ \E r \in Reqs : promptPin(r)
  \/ \E r \in Reqs : PinWindowCreated(r)
  \/ \E r \in Reqs : PinWindowGot(r)
  \/ \E r \in Reqs : Execute(r, "ok")
  \/ \E hd \in OneHandler, w \in WinIds : OnRemoved(hd, w)

SpecPinFair == SpecPin /\ WF_vars(PinProgress)

----------------------------------------------------------------------------
(* The session tokens of two origins, for a relay URL with and without a   *)
(* "|" in it, while the tokens expire.                                     *)

TokenRelays == {<<"r">>, <<"r", "|", "A">>}
TokenTtls == {1}
TokenTickSteps == {1000}

NextTokens ==
  \/ \E o \in Origins, u \in TokenRelays, ttl \in TokenTtls : CallSetSessionToken(o, u, ttl)
  \/ \E o \in Origins, u \in TokenRelays : CallGetSessionToken(o, u)
  \/ \E o \in Origins, u \in TokenRelays : CallRemoveSessionToken(o, u)
  \/ \E o \in Origins : TokenContinue(o)
  \/ \E o \in Origins : TokenReturn(o)
  \/ \E d \in TokenTickSteps : Tick(d)

SpecTokens == Init /\ [][NextTokens]_vars

----------------------------------------------------------------------------
(* Relay-auth events (kind 22242) of one host for relays with and without  *)
(* a per-relay auth grant, while the user answers the prompts and the      *)
(* nip42AutoSign preference is switched.                                   *)

RelayReqs == 2
RelayDurations == {"forever"}

NextRelay ==
  \/ \E u \in Relays :
       /\ Len(requests) < RelayReqs
       /\ quiet
       /\ ArriveTagged("h1", "signEvent", 22242, Len(requests) + 1, "absent", u)
  \/ RequestSteps
  \/ \E r \in Reqs : WindowGot(r)
  \/ \E r \in Reqs : Execute(r, "ok")
  \/ \E hd \in OneHandler, w \in WinIds, id \in Reqs, m \in BOOLEAN :
       quiet /\ id \in promptIds /\ Decide(hd, w, id, "approve", m, "forever")
  \/ \E hd \in Handlers : HandlerGrantWrite(hd)
  \/ HandlerSteps
  \/ \E hd \in Handlers : HandlerStored(hd)
  \/ \E hd \in OneHandler, w \in WinIds : OnRemoved(hd, w)
  \/ \E u \in Relays, d \in RelayDurations : quiet /\ addRelayAuthGrant(u, d)
  \/ \E v \in BOOLEAN : quiet /\ updateSecurityPreference("nip42AutoSign", v)

SpecRelay == Init /\ [][NextRelay]_vars

----------------------------------------------------------------------------
(* Prompts whose responses arrive more than once: the second response      *)
(* finds the prompt still open, or gone.                                   *)

ResponseReqs == 2

NextResponse ==
  \/ /\ Len(requests) < ResponseReqs
     /\ quiet
     /\ Arrive("h1", "signEvent", 1, Len(requests) + 1, "absent")
  \/ RequestSteps
  \/ \E r \in Reqs : WindowGot(r)
  \/ \E r \in Reqs : Execute(r, "ok")
  \/ \E hd \in OneHandler, w \in WinIds, id \in Reqs, a \in {"approve", "reject"},
        m \in BOOLEAN : quiet /\ id \in promptIds /\ Decide(hd, w, id, a, m, "once")
  \/ \E hd \in Handlers, w \in WinIds, id \in Reqs, a \in {"approve", "reject"},
        m \in BOOLEAN : Resend(hd, w, id, a, m, "once")
  \/ \E hd \in Handlers : HandlerGrantWrite(hd)
  \/ HandlerSteps
  \/ RejectionSteps
  \/ \E hd \in OneHandler, w \in WinIds : OnRemoved(hd, w)

SpecResponse == Init /\ [][NextResponse]_vars

----------------------------------------------------------------------------
(* Grants of several durations, the purge, the clock and one browser       *)
(* startup, while requests touch the site records.  Each capability is     *)
(* granted with one duration only, and nothing is granted once the browser *)
(* has started again.                                                      *)

StartupGrants ==
  {<<"h1", "signEvent", "session">>, <<"h2", "signEvent", "5m">>,
   <<"h1", "nip04.decrypt", "forever">>}
StartupTickSteps == {300000}

NextStartup ==
  \/ \E t \in StoreTasks, g \in StartupGrants :
       startup.pc = "idle" /\ CallAddGrant(t, g[1], g[2], g[3], <<>>)
  \/ \E t \in StoreTasks : CallTouchSite(t, "h1")
  \/ \E t \in StoreTasks : CallPurgeExpiredGrants(t)
  \/ \E t \in StoreTasks : StoreContinue(t)
  \/ \E t \in StoreTasks : StoreReturn(t)
  \/ \E d \in StartupTickSteps : Tick(d)
  \/ BrowserStartup
  \/ StartupStep

SpecStartup == Init /\ [][NextStartup]_vars

----------------------------------------------------------------------------
(* Requests of one host that arrive at any time, also while earlier ones   *)
(* are in progress: reads that are auto-approved and signEvent requests    *)
(* that are prompted, rejected, deduped or stopped by the cooldown.        *)

TouchReqs == 3
TouchTypes == {"getPublicKey", "signEvent"}
TouchContents == {1, 2}

NextTouch ==
  \/ \E type \in TouchTypes, content \in TouchContents :
       /\ Len(requests) < TouchReqs
       /\ type = "getPublicKey" => content = 1
       /\ Arrive("h1", type, IF type = "signEvent" THEN 1 ELSE undefined, content, "absent")
  \/ RequestSteps
  \/ \E r \in Reqs : WindowGot(r)
  \/ \E r \in Reqs : Execute(r, "ok")
  \/ \E hd \in OneHandler, w \in WinIds, id \in Reqs :
       quiet /\ id \in promptIds /\ Decide(hd, w, id, "reject", FALSE, "once")
  \/ HandlerSteps
  \/ RejectionSteps
  \/ \E hd \in OneHandler, w \in WinIds : OnRemoved(hd, w)

SpecTouch == Init /\ [][NextTouch]_vars

----------------------------------------------------------------------------
(* Claims about the grant store *)

\* a hasActiveGrant call that has returned
checked(t) == storeTasks[t].op = "hasActiveGrant" /\ storeTasks[t].pc = "done"

\* the grants the call found stored for its host
grantsSeen(t) ==
  IF storeTasks[t].snap[storeTasks[t].host] = NoSite THEN <<>>
  ELSE storeTasks[t].snap[storeTasks[t].host].grants

\* C6: once addGrant(H, C, forever) has completed, hasActiveGrant(H, C) returns a
\* grant in every later state until the grant is revoked (revokeGrant,
\* revokeAllGrants, removeSite; a replacing addGrant counts as revocation here),
\* whatever other store operations happen in between.
C6_ForeverGrantStays ==
  \A p \in foreverGranted :
    hasActiveGrant(sitePermissions, p[1], p[2], undefined, nowSec) # NoGrant

\* C8: a once grant whose expires_at equals the current time is still valid:
\* a hasActiveGrant call made in the second the grant was created returns it.
C8_OnceGrantValidAtExpiry ==
  \A t \in StoreTasks :
    (/\ checked(t)
     /\ \E i \in 1..Len(grantsSeen(t)) :
          /\ grantsSeen(t)[i].capability = storeTasks[t].capability
          /\ grantsSeen(t)[i].duration = "once"
          /\ grantsSeen(t)[i].expires_at = storeTasks[t].at
          /\ ~kindRefused(grantsSeen(t)[i], storeTasks[t].capability, storeTasks[t].eventKind))
    => storeTasks[t].ret # NoGrant

\* C9: no host's grants list holds two grants for the same capability.
C9_OneGrantPerCapability ==
  \A h \in Hosts :
    sitePermissions[h] # NoSite =>
      \A i, j \in 1..Len(sitePermissions[h].grants) :
        i # j => sitePermissions[h].grants[i].capability
                   # sitePermissions[h].grants[j].capability

\* C9's case: an addGrant has written over a grant of the same capability, and a
\* grant of another capability stands beside the new one.
C9_GrantReplaced ==
  \E t \in StoreTasks :
    /\ storeTasks[t].op = "addGrant" /\ storeTasks[t].pc = "done"
    /\ storeTasks[t].snap[storeTasks[t].host] # NoSite
    /\ \E i \in 1..Len(storeTasks[t].snap[storeTasks[t].host].grants) :
         storeTasks[t].snap[storeTasks[t].host].grants[i].capability
           = storeTasks[t].capability
    /\ sitePermissions[storeTasks[t].host] # NoSite
    /\ Len(sitePermissions[storeTasks[t].host].grants) = 2

\* C10: a signEvent grant with a non-empty allowedKinds list is returned by
\* hasActiveGrant only for a request whose event kind is in the list.
C10_AllowedKindsRespected ==
  \A t \in StoreTasks :
    (/\ checked(t)
     /\ storeTasks[t].capability = "signEvent"
     /\ storeTasks[t].ret # NoGrant)
    => \/ Len(storeTasks[t].ret.allowedKinds) = 0
       \/ InSeq(storeTasks[t].eventKind, storeTasks[t].ret.allowedKinds)

----------------------------------------------------------------------------
(* Claims about the request pipeline *)

openWindows == {w \in WinIds : windows[w] = "open"}

\* C1: in every reachable state at most one approval window is open.
C1_OneApprovalWindow == Cardinality(openWindows) <= 1

\* the request went to the prompt
prompted(r) ==
  \/ requests[r].pc \in {"site", "win_get", "win_join", "awaiting", "deny", "denied"}
  \/ logged(r, "approved")
  \/ logged(r, "rejected")

\* C7: a request whose grant check finds a once grant stored for its host and
\* capability is authorized by that grant: it is not prompted, and once it has
\* been logged auto-approved the grant has been written out of the store by it.
C7_OnceGrantConsumed ==
  \A r \in Reqs :
    requests[r].sawOnce =>
      /\ ~prompted(r)
      /\ requests[r].pc \in {"consume", "consumed", "exec", "done"}

\* processRequest is running for the request
executing(r) ==
  requests[r].pc \in {"prefs", "grant", "consume", "consumed", "site", "win_get",
                      "win_join", "awaiting", "deny", "denied", "exec"}

\* C2: for every request fingerprint, at most one processRequest execution is
\* in flight at any time.
C2_OneExecutionPerFingerprint ==
  \A r1, r2 \in Reqs :
    (/\ r1 # r2
     /\ fingerprintOf(requests[r1]) # noFingerprint
     /\ fingerprintOf(requests[r1]) = fingerprintOf(requests[r2]))
    => ~(executing(r1) /\ executing(r2))

\* C3: the number of simultaneously open prompts never exceeds 25.
C3_QueueCap == Len(openPromptMap) <= PROMPT_QUEUE_CAP

\* the request has been through the guards of handleContentScriptMessage
guarded(r) == requests[r].pc \notin {"touch", "touched"}

\* the request was refused with this disposition: error result, log entry
refused(r, disposition) ==
  /\ requests[r].pc = "done"
  /\ requests[r].result = "error"
  /\ logged(r, disposition)

\* C4 (as stated): of the non-auto-approved requests of a host that arrive within
\* one 5-second window at most 10 pass the rate limiter; the 11th and every later
\* one is answered with an error and logged rate-limited; and a request that comes
\* when 5 seconds have passed since the admitted requests is admitted.
C4_RateLimit ==
  \A r \in Reqs :
    (guarded(r) /\ requests[r].type \notin AUTO_APPROVE_TYPES) =>
      /\ requests[r].rl = "null" => requests[r].inWindow < RATE_LIMIT_MAX
      /\ requests[r].inWindow >= RATE_LIMIT_MAX => refused(r, "rate-limited")
      /\ requests[r].inWindow = 0 => requests[r].rl = "null"

\* C4 (amended): the same for a host that is not in rejection cooldown when the
\* request is checked; a request checked during the cooldown is refused as
\* cooldown whatever the count.
C4_RateLimitOutsideCooldown ==
  \A r \in Reqs :
    (guarded(r) /\ requests[r].type \notin AUTO_APPROVE_TYPES) =>
      /\ requests[r].rl = "null" => requests[r].inWindow < RATE_LIMIT_MAX
      /\ requests[r].rl = "cooldown" => refused(r, "cooldown")
      /\ requests[r].rl # "cooldown" =>
            /\ requests[r].inWindow >= RATE_LIMIT_MAX => refused(r, "rate-limited")
            /\ requests[r].inWindow < RATE_LIMIT_MAX => requests[r].rl = "null"

\* C4's case: an 11th request has been refused as rate-limited, and a later
\* request of the host, 5 seconds after the admitted ones, has been admitted.
C4_RefusedThenAdmitted ==
  \E r1, r2 \in Reqs :
    /\ r1 < r2
    /\ requests[r1].inWindow = RATE_LIMIT_MAX
    /\ refused(r1, "rate-limited")
    /\ requests[r2].host = requests[r1].host
    /\ requests[r2].at >= requests[r1].at + RATE_LIMIT_WINDOW_MS
    /\ requests[r2].rl = "null"

\* C5 (as stated): after a user rejection of a prompt for host H, any request
\* from H that is checked within the following 30 seconds is rejected with
\* disposition cooldown and creates no prompt.
C5_Cooldown ==
  \A r \in Reqs :
    (guarded(r) /\ requests[r].afterReject) =>
      /\ refused(r, "cooldown")
      /\ ~prompted(r)

\* C5 (amended): the same for every request that is not of an auto-approved type
\* (getPublicKey and getRelays skip the guards).
C5_CooldownForGuardedTypes ==
  \A r \in Reqs :
    (/\ guarded(r)
     /\ requests[r].afterReject
     /\ requests[r].type \notin AUTO_APPROVE_TYPES) =>
      /\ refused(r, "cooldown")
      /\ ~prompted(r)

\* C5's case: the user has rejected a prompt of the host and a later signEvent
\* request of the host, checked within 30 seconds, has been through the guards.
C5_RequestAfterRejection ==
  \E r \in Reqs :
    /\ guarded(r)
    /\ requests[r].afterReject
    /\ requests[r].type = "signEvent"
    /\ requests[r].at > 0
    /\ logged(r, "cooldown")

----------------------------------------------------------------------------
(* Claims about the guards and the execution *)

\* the requests of the host that the rate limiter has admitted
admitted(host) ==
  {r \in Reqs : /\ requests[r].host = host
                /\ requests[r].type \notin AUTO_APPROVE_TYPES
                /\ requests[r].rl = "null"}

\* C11: a getPublicKey or getRelays request is always auto-approved and leaves the
\* anti-abuse state alone: it is never refused as cooldown, rate-limited or
\* queue-full, never gets a prompt, adds no timestamp to the rate-limit window of
\* its host and no entry to the dedup map.
C11_AutoApprovedBypass ==
  /\ \A r \in Reqs :
       (guarded(r) /\ requests[r].type \in AUTO_APPROVE_TYPES) =>
         /\ logged(r, "auto-approved")
         /\ \A d \in {"cooldown", "rate-limited", "queue-full"} : ~logged(r, d)
         /\ requests[r].pc \in {"exec", "done"}
         /\ requests[r].win = 0
         /\ r \notin promptIds
         /\ \A e \in pendingSignRequests : e.owner # r
         /\ \A t \in dedupTimers : t.fp # fingerprintOf(requests[r])
  /\ \A h \in Hosts : Len(requestTimestamps[h]) <= Cardinality(admitted(h))

\* C11's case: an auto-approved request has come from a host that was in rejection
\* cooldown and had used up its rate-limit window, with the prompt queue full.
C11_AutoUnderAllGuards ==
  \E r \in Reqs :
    /\ requests[r].type \in AUTO_APPROVE_TYPES
    /\ guarded(r)
    /\ requests[r].afterReject
    /\ Len(requestTimestamps[requests[r].host]) >= RATE_LIMIT_MAX
    /\ requests[r].queue >= PROMPT_QUEUE_CAP
    /\ requests[r].result = "value"

\* the rejection of request r by closeAllAsync is still to come or under way
closing(r) ==
  \/ windows[requests[r].win] = "closing"
  \/ \E hd \in Handlers : /\ handlers[hd].pc # "idle"
                            /\ (handlers[hd].id = r \/ InSeq(r, handlers[hd].queue))

\* request r has been answered with the permission-denied error
denied(r) ==
  /\ requests[r].pc = "done"
  /\ requests[r].result = "error"
  /\ logged(r, "rejected")
  /\ ~requests[r].keyRead

\* C12 (safety part): a request whose approval window the user closed without
\* deciding it is never executed, and once closeAllAsync is through with it its
\* prompt is out of openPromptMap and the request is rejected or about to be.
C12_ClosedNeverExecuted ==
  \A r \in Reqs :
    requests[r].closed =>
      /\ ~requests[r].keyRead
      /\ requests[r].pc \in {"awaiting", "deny", "denied", "done"}
      /\ requests[r].pc = "done" => denied(r)
      /\ ~closing(r) => (r \notin promptIds /\ requests[r].pc # "awaiting")

\* C12: when the approval window is closed without a decision, every request
\* whose prompt is attached to it ends rejected (permission-denied error, nothing
\* executed) and its prompt leaves openPromptMap.
C12_WindowCloseRejects ==
  /\ []C12_ClosedNeverExecuted
  /\ \A r \in 1..PromptReqs :
       (r \in Reqs /\ requests[r].closed)
         ~> (r \in Reqs /\ denied(r) /\ r \notin promptIds)

\* C12's case: the user has closed a window with the prompts of two undecided
\* requests, and both have been rejected.
C12_TwoClosedRejected ==
  \E r1, r2 \in Reqs :
    /\ r1 # r2
    /\ requests[r1].closed /\ requests[r2].closed
    /\ requests[r1].win = requests[r2].win
    /\ denied(r1) /\ denied(r2)
    /\ promptIds = {}

\* C13: every capability request ends with a value or a structured error: an
\* exception raised after authorization never makes the promise returned by
\* handleContentScriptMessage reject.
C13_StructuredResponse ==
  \A r \in Reqs :
    requests[r].pc = "done" => requests[r].result \in {"value", "error"}

\* C14: a signEvent request whose event declares a pubkey other than the public key
\* derived from the active private key never yields a signed event: once the key
\* is derived it fails before finalizeEvent is called, with a structured error
\* and an error entry in the log.
C14_AuthorMismatchNotSigned ==
  \A r \in Reqs :
    (/\ requests[r].type = "signEvent"
     /\ requests[r].kind # undefined
     /\ requests[r].pubkey = "other") =>
      /\ ~requests[r].signed
      /\ requests[r].result # "value"
      /\ requests[r].sk # "none" => (requests[r].result = "error" /\ logged(r, "error"))

\* C14's case: an approved signEvent request with another author has been executed
\* with the key at hand.
C14_MismatchExecuted ==
  \E r \in Reqs :
    /\ requests[r].type = "signEvent"
    /\ requests[r].pubkey = "other"
    /\ requests[r].decision = "approve"
    /\ requests[r].sk = "cleared"
    /\ requests[r].pc = "done"

\* C15: a request that ends as cooldown, rate-limited, queue-full or rejected by
\* the user never reads the private key.
C15_NoKeyForRefused ==
  \A r \in Reqs :
    (\/ \E d \in {"cooldown", "rate-limited", "queue-full", "rejected"} : logged(r, d)
     \/ requests[r].decision = "reject") => ~requests[r].keyRead

\* C15's case: requests have been refused as cooldown, rate-limited and queue-full,
\* one has been rejected by the user, and an auto-approved one has read the key.
C15_AllRefusalsSeen ==
  /\ \A d \in {"cooldown", "rate-limited", "queue-full", "rejected"} :
       \E r \in Reqs : logged(r, d) /\ requests[r].pc = "done"
  /\ \E r \in Reqs : requests[r].keyRead /\ logged(r, "auto-approved")

\* C16: whenever processRequest has put the key bytes in scope, they are cleared
\* when it returns, on every exit path.
C16_KeyCleared ==
  \A r \in Reqs :
    requests[r].pc = "done" => requests[r].sk \in {"none", "cleared"}

\* C16's case: one request has returned a result and another has ended in the catch
\* block, both with the key bytes cleared.
C16_ClearedOnBothPaths ==
  \E r1, r2 \in Reqs :
    /\ requests[r1].pc = "done" /\ requests[r2].pc = "done"
    /\ requests[r1].sk = "cleared" /\ requests[r1].result = "value"
    /\ requests[r2].sk = "cleared" /\ requests[r2].result = "error"
    /\ logged(r2, "error")

----------------------------------------------------------------------------
(* Claims about the audit log *)

\* C17: the audit log holds at most the configured maximum number of entries (the
\* preference maxAuditLogEntries, 500 by default), and what it holds are the most
\* recent entries, in insertion order, with strictly increasing ids.
C17_LogWithinConfiguredMaximum ==
  /\ Len(entries) <= securityPreferences.maxAuditLogEntries
  /\ \A i \in 1..(Len(entries) - 1) : entries[i].id < entries[i + 1].id
  /\ \A i \in 1..Len(entries) : entries[i].id = issued[Len(issued) - Len(entries) + i]

\* C18: the ids given to audit entries are strictly increasing over the whole life
\* of the log: across the load at start, restarts, clearLog, clearLogFromStorage
\* and the recovery from a quota overflow.
C18_IdsIncreaseForLife ==
  \A i, j \in 1..Len(issued) : i < j => issued[i] < issued[j]

C20_SecondRequestDeduped ==
  \A r \in Reqs :
    (requests[r].type = "signEvent" /\ requests[r].twin # 0) =>
      /\ requests[r].pc \in {"deduped", "done"}
      /\ r \notin promptIds
      /\ ~requests[r].signed
      /\ Cardinality({i \in 1..Len(entries) : entries[i].req = r}) = 1
      /\ logged(r, "deduped")
      /\ (requests[r].pc = "done" /\ requests[requests[r].twin].pc = "done") =>
            requests[r].result = requests[requests[r].twin].result

----------------------------------------------------------------------------
(* Claims about the site records and the stored grants *)

\* C21: a host's denied_count is above zero only when the user has explicitly
\* rejected a prompt of that host; a prompt rejected because its window was closed
\* does not count.
C21_DeniedOnlyByUser ==
  \A h \in Hosts :
    (sitePermissions[h] # NoSite /\ sitePermissions[h].denied_count > 0) =>
      \E r \in Reqs : /\ requests[r].host = h
                      /\ requests[r].decision = "reject"
                      /\ requests[r].by = "user"

\* an open window carries the request's approval prompt or its PIN prompt
carried(r) ==
  \/ \E i \in 1..Len(openPromptMap) :
       openPromptMap[i].id = r /\ windows[openPromptMap[i].windowId] = "open"
  \/ \E i \in 1..Len(pinPromptMap) :
       pinPromptMap[i].id = r /\ windows[pinPromptMap[i].windowId] = "open"

\* C22: no request stays pending forever without an open approval window that
\* carries its prompt: again and again it has returned or such a window is open.
C22_NoRequestHangs ==
  \A r \in 1..PinReqs :
    []<>(r \in Reqs => (requests[r].pc = "done" \/ carried(r)))

\* C23 as stated: the unknown kind 50000 is classified low.
C23_Kind50000Low ==
  \A r \in Reqs :
    (requests[r].kind = 50000 /\ requests[r].risk # "none") => requests[r].risk = "low"

\* C23, amended: the unknown kind 50000 is classified medium, by the last default;
\* an unlisted kind of the ephemeral range 20000 to 29999 is classified low.
C23_Kind50000Medium ==
  \A r \in Reqs :
    /\ (requests[r].kind = 50000 /\ requests[r].risk # "none") => requests[r].risk = "medium"
    /\ (requests[r].kind = 25000 /\ requests[r].risk # "none") => requests[r].risk = "low"

\* C23's case: prompts for kind 50000 and for kind 25000 have been classified.
C23_BothClassified ==
  \E r1, r2 \in Reqs :
    /\ requests[r1].kind = 50000 /\ requests[r1].risk # "none"
    /\ requests[r2].kind = 25000 /\ requests[r2].risk # "none"

\* the host holds a signEvent grant for ever
grantedForever(h) ==
  /\ sitePermissions[h] # NoSite
  /\ \E i \in 1..Len(sitePermissions[h].grants) :
       /\ sitePermissions[h].grants[i].capability = "signEvent"
       /\ sitePermissions[h].grants[i].duration = "forever"

\* C24: a signEvent request of a critical kind whose processRequest read the
\* preference alwaysPromptCritical as on is never authorized by a stored grant:
\* it never looks for one, is never logged auto-approved, and is executed only
\* after the user has approved its prompt.
C24_CriticalAlwaysPrompted ==
  \A r \in Reqs :
    (/\ requests[r].type = "signEvent"
     /\ requests[r].kind = 9734
     /\ requests[r].prefs.alwaysPromptCritical) =>
      /\ requests[r].pc \notin {"grant", "consume", "consumed"}
      /\ ~logged(r, "auto-approved")
      /\ (requests[r].pc = "exec" \/ requests[r].keyRead) => requests[r].decision = "approve"

\* C24's case: a request of the critical kind 9734 waits for the user's decision
\* while its host holds a signEvent grant for ever and the preference is on.
C24_CriticalPromptedDespiteGrant ==
  \E r \in Reqs :
    /\ requests[r].kind = 9734
    /\ requests[r].pc = "awaiting"
    /\ requests[r].prefs.alwaysPromptCritical
    /\ securityPreferences.alwaysPromptCritical
    /\ grantedForever(requests[r].host)

\* C25: once the addGrant of a remembered one-hour approval of a signEvent kind-1
\* prompt is written, the host has a signEvent grant that expires 3600 seconds
\* later, and every signEvent kind-1 request of the host that arrives after it and
\* is checked before that time is logged auto-approved and gets no prompt.
C25_RememberedForAnHour ==
  /\ \A r \in Reqs :
       (/\ requests[r].remembered = "1h"
        /\ \A p \in Reqs : requests[p].grantedAt <= requests[r].grantedAt) =>
         /\ sitePermissions[requests[r].host] # NoSite
         /\ \E i \in 1..Len(sitePermissions[requests[r].host].grants) :
              /\ sitePermissions[requests[r].host].grants[i].capability = "signEvent"
              /\ sitePermissions[requests[r].host].grants[i].expires_at =
                   (requests[r].grantedAt \div 1000) + 3600
  /\ \A r \in Reqs :
       (/\ requests[r].type = "signEvent" /\ requests[r].kind = 1
        /\ requests[r].since # null
        /\ requests[r].pc \notin {"touch", "touched"}
        /\ requests[r].at \div 1000 < (requests[r].since \div 1000) + 3600) =>
         /\ requests[r].pc \in {"prefs", "grant", "exec", "done"}
         /\ requests[r].risk = "none"
         /\ r \notin promptIds
         /\ requests[r].pc \in {"exec", "done"} => logged(r, "auto-approved")

\* a getSessionToken call that has returned
tokenRead(o) == tokenTasks[o].op = "getSessionToken" /\ tokenTasks[o].pc = "done"

\* C26: session tokens are isolated by origin: whatever setSessionToken,
\* getSessionToken and removeSessionToken calls are made for two different
\* origins, getSessionToken for one origin never returns an entry stored for the
\* other, and the calls of the other origin never change what it returns: it
\* returns what it would return had the origin's own calls been the only ones.
C26_OriginIsolation ==
  \A o \in Origins :
    tokenRead(o) =>
      /\ tokenTasks[o].ret # NoToken => tokenTasks[o].ret.origin = o
      /\ tokenTasks[o].ret = tokenTasks[o].expected

\* a kind-22242 signEvent request that checkExistingGrant has looked at
authChecked(r) ==
  /\ requests[r].type = "signEvent"
  /\ requests[r].kind = 22242
  /\ requests[r].lookup # "none"

\* C27: a kind-22242 signEvent request is auto-signed silently exactly when the
\* relay named in the event's tags has an active per-relay auth grant; when the
\* relay has none, the user is prompted (the request goes on to the grant lookup
\* and the prompt).
C27_AutoSignedIffRelayTrusted ==
  \A r \in Reqs :
    authChecked(r) => (requests[r].lookup = "auto-signed" <=> requests[r].trusted)

\* a step of a handlePromptMessage call whose id matched no open prompt
unknownStep(hd) ==
  /\ handlers'[hd] # handlers[hd]
  /\ \/ handlers[hd].pc = "idle" /\ ~handlers'[hd].open
     \/ handlers[hd].pc # "idle" /\ ~handlers[hd].open

\* C28: a prompt response whose id matches no open prompt is ignored: no step of
\* its handling resolves or rejects a pending request, changes a grant, a
\* denied_count or a cooldown, and the call goes straight to PromptManager.remove
\* and returns.
C28_UnknownIdIgnored ==
  [][\A hd \in Handlers :
       unknownStep(hd) =>
         /\ requests' = requests
         /\ sitePermissions' = sitePermissions
         /\ rejectionCooldowns' = rejectionCooldowns
         /\ openPromptMap' = openPromptMap
         /\ handlers'[hd].pc \in {"rm", "rm_w", "idle"} \/ handlers'[hd].open]_vars

\* C28's case: a response sent from a prompt window for an id that matches no
\* open prompt has been handled, while another request still awaits its decision.
C28_UnknownIdHandled ==
  \E hd \in Handlers :
    /\ ~handlers[hd].open
    /\ handlers[hd].sender # 0
    /\ handlers[hd].pc = "rm_w"
    /\ \E r \in Reqs : requests[r].pc = "awaiting"

\* the grants of duration session stored for host h
sessionGrants(perms, h) ==
  IF perms[h] = NoSite THEN {}
  ELSE {perms[h].grants[i] :
          i \in {j \in 1..Len(perms[h].grants) : perms[h].grants[j].duration = "session"}}

\* the grants of the other durations stored for host h that have not expired
lastingGrants(perms, h) ==
  IF perms[h] = NoSite THEN {}
  ELSE {perms[h].grants[i] :
          i \in {j \in 1..Len(perms[h].grants) :
                   /\ perms[h].grants[j].duration # "session"
                   /\ ~grantExpired(perms[h].grants[j], nowSec)}}

\* C29: a grant of duration session has expires_at null and authorizes requests
\* for as long as no browser startup occurs, whatever time passes and whether or
\* not purgeExpiredGrants runs (no step but those of the startup listener takes a
\* session grant away, and hasActiveGrant returns a grant for it); after the
\* startup listener has completed, no grant of duration session is left for any
\* host, and the grants of every other duration that the browser found and that
\* have not expired are still there.
C29_SessionGrantsUntilStartup ==
  /\ [](\A h \in Hosts : \A g \in sessionGrants(sitePermissions, h) :
          /\ g.expires_at = null
          /\ hasActiveGrant(sitePermissions, h, g.capability, undefined, nowSec) # NoGrant)
  /\ [][startup' = startup =>
          \A h \in Hosts : sessionGrants(sitePermissions, h) \subseteq
                             sessionGrants(sitePermissions', h)]_vars
  /\ [](startup.pc = "done" =>
          \A h \in Hosts :
            /\ sessionGrants(sitePermissions, h) = {}
            /\ lastingGrants(startup.before, h) \subseteq lastingGrants(sitePermissions, h))

\* the requests of host h whose touchSite has written
touched(h) == {r \in Reqs : requests[r].host = h /\ requests[r].pc # "touch"}

\* C30: every inbound capability request touches its host's site record,
\* whatever its outcome: once the touchSite of each of the n requests that a host
\* has sent has written, also when they arrived concurrently, the host's record
\* exists and its request_count is n.
C30_EveryRequestCounted ==
  \A h \in Hosts :
    (touched(h) # {} /\ \A r \in Reqs : requests[r].pc # "touch") =>
      /\ sitePermissions[h] # NoSite
      /\ sitePermissions[h].request_count = Cardinality(touched(h))


\* the step is the start of flushToStorage in f, up to its storage.set
flushStarts(f) == flushTasks[f] = "idle" /\ flushTasks'[f] # "idle"

\* C31: a burst of calls of logRequest, clearLog and clearSuppressedCount,
\* each less than FLUSH_DELAY_MS after the one before, causes one write to
\* storage: flushToStorage writes only when FLUSH_DELAY_MS have passed since
\* the latest of the calls, no further flush is scheduled after it until the
\* next call, and when the write succeeds the stored entries are the
\* in-memory entries in their order.
C31_DebouncedFlush ==
  [][\A f \in FlushTasks :
       flushStarts(f) =>
         /\ now >= lastScheduled + FLUSH_DELAY_MS
         /\ ~flushTimer'
         /\ flushTasks'[f] = "ok" => (auditStore'.stored /\ auditStore'.entries = entries')]_vars

\* C31, its case: two calls 500 ms apart have been made and the log of both
\* was written 1000 ms after the second.
C31_BurstWritten ==
  /\ auditStore.stored
  /\ Len(auditStore.entries) >= 2
  /\ lastScheduled = 500
  /\ now >= 1500


\* C32: while the creation of an approval window is pending, a request that
\* reaches promptForPermission calls no second creation: the pending-creation
\* promise is in pendingWindowPromise for it to wait on (or a registered
\* prompt gives it a window to look up).
C32_ArrivalsJoinPendingCreation ==
  \A w \in WinIds :
    windows[w] = "creating" => (pendingWindowPromise = w \/ Len(openPromptMap) > 0)


\* the guard that trips first for request r, from what held when its guards ran
firstTripped(r) ==
  IF requests[r].afterReject THEN "cooldown"
  ELSE IF requests[r].inWindow >= RATE_LIMIT_MAX THEN "rate-limited"
  ELSE IF requests[r].queue >= PROMPT_QUEUE_CAP THEN "queue-full"
  ELSE IF requests[r].twin # 0 THEN "deduped"
  ELSE "none"

\* the requests whose guards have run
guardsRun == {r \in Reqs : requests[r].rl # "none"}

\* C33: the guards are applied in the order cooldown, rate limit, queue-full,
\* dedup, and the first that trips gives the request its one disposition; a
\* request refused as cooldown or as rate-limited adds no timestamp to the
\* rate-limit window of its host, so the window holds exactly the requests
\* that passed both.
C33_GuardOrder ==
  /\ \A r \in guardsRun :
       \A d \in {"cooldown", "rate-limited", "queue-full", "deduped"} :
         logged(r, d) <=> d = firstTripped(r)
  /\ \A h \in Hosts :
       Len(requestTimestamps[h]) =
         Cardinality({r \in guardsRun : /\ requests[r].host = h
                                      /\ firstTripped(r) \notin {"cooldown", "rate-limited"}})

\* C33, its case: one request was refused as rate-limited while the queue was
\* full, and another as queue-full while an identical request was in progress.
C33_SeveralGuardsTrip ==
  /\ \E r \in guardsRun :
       logged(r, "rate-limited") /\ requests[r].queue >= PROMPT_QUEUE_CAP
  /\ \E r \in guardsRun : logged(r, "queue-full") /\ requests[r].twin # 0


\* the host of request p was authorized for what p asks: the user approved a
\* prompt of that host for it, or a grant of the host let it through
authorizedFor(p) ==
  \E r \in Reqs :
    /\ requests[r].host = requests[p].host
    /\ requests[r].type = requests[p].type
    /\ fingerprintOf(requests[r]) = fingerprintOf(requests[p])
    /\ (requests[r].decision = "approve" \/ logged(r, "auto-approved"))

\* C34: a request is answered with a successful result only if its own host
\* was authorized for it; a request whose fingerprint equals that of a request
\* in flight for another host does not receive that request's result.
C34_ResultOnlyForAuthorizedHost ==
  \A p \in Reqs :
    (requests[p].pc = "done" /\ requests[p].result = "value") => authorizedFor(p)


\* no PromptManager.add or remove and no decision handler is in progress
listSettled ==
  /\ \A r \in Reqs : requests[r].add = "none"
  /\ \A hd \in Handlers : handlers[hd].pc = "idle"

\* C35: once the PromptManager.add and remove calls in progress have
\* completed, every prompt registered in openPromptMap is in the persisted
\* open-prompt list, so no request waits on a prompt the approval window does
\* not show.
C35_RegisteredPromptsListed ==
  listSettled => promptIds \subseteq {openPrompts[i] : i \in 1..Len(openPrompts)}


\* C36: a grant written by a completed addGrant is not lost to a concurrent
\* write of the site-permissions map: once the touchSite, incrementDenied and
\* consumeOnceGrant calls made around it have completed, a forever grant that
\* was added and not replaced is in the grants of its host.
C36_GrantSurvivesWriteBack ==
  (\A t \in StoreTasks : storeTasks[t].pc = "idle") =>
    \A p \in foreverGranted :
      /\ sitePermissions[p[1]] # NoSite
      /\ \E i \in 1..Len(sitePermissions[p[1]].grants) :
           /\ sitePermissions[p[1]].grants[i].capability = p[2]
           /\ sitePermissions[p[1]].grants[i].duration = "forever"


\* the requests of host h whose prompt the user rejected
rejectedByUser(h) ==
  {r \in Reqs : /\ requests[r].host = h
                /\ requests[r].decision = "reject"
                /\ requests[r].by = "user"}

\* C37: one explicit rejection of one prompt raises the host's denied_count by
\* exactly 1 and adds exactly one audit entry with disposition rejected: when
\* nothing is in progress, denied_count is the number of prompts of the host
\* that the user rejected, and each of them has one rejected entry.
C37_RejectionCountedOnce ==
  quiet =>
    \A h \in Hosts :
      /\ rejectedByUser(h) # {} =>
           /\ sitePermissions[h] # NoSite
           /\ sitePermissions[h].denied_count = Cardinality(rejectedByUser(h))
      /\ \A r \in rejectedByUser(h) :
           Cardinality({i \in 1..Len(entries) :
                          entries[i].req = r /\ entries[i].disposition = "rejected"}) = 1


\* C38: a decision for a prompt id takes effect at most once, also when a
\* second message with the id arrives while the first is being handled: no
\* grant is stored unless the decision that resolved some request was an
\* approval, and a host's denied_count never exceeds the number of its prompts
\* that were resolved as rejected.
C38_DecisionTakesEffectOnce ==
  /\ (\A r \in Reqs : requests[r].decision # "approve") =>
       \A h \in Hosts : sitePermissions[h] # NoSite => sitePermissions[h].grants = <<>>
  /\ \A h \in Hosts :
       sitePermissions[h] # NoSite =>
         sitePermissions[h].denied_count <=
           Cardinality({r \in Reqs : requests[r].host = h /\ requests[r].decision = "reject"})


\* C39: every request that is answered with a structured error has an audit
\* entry with a non-success disposition; none is recorded only as approved or
\* auto-approved and then answered with an error.
C39_ErrorHasNonSuccessEntry ==
  \A r \in Reqs :
    (requests[r].pc = "done" /\ requests[r].result = "error") =>
      \E d \in {"rejected", "rate-limited", "cooldown", "queue-full", "deduped", "error"} :
        logged(r, d)

============================================================================
